---- MODULE Spec2Model ----
(***************************************************************************)
(* MealMind: the meal recommender (src/meal_recommender.py).               *)
(*                                                                         *)
(* The recommender object holds one piece of state, the meal catalog       *)
(* meals_database.  Each public method is one action: it is called while   *)
(* the caller is idle, runs to completion, and leaves what it returned in  *)
(* ret until the caller has consumed it (Return).                          *)
(*                                                                         *)
(* Python floats are modelled as exact rationals <<n, d>> in lowest terms  *)
(* with d > 0.  Python strings are TLA+ strings; lower() and the `in`      *)
(* substring test are computed character by character.  A Python list of   *)
(* dict references into a catalog partition is modelled as the sequence of *)
(* the indices of those dicts in the partition.                            *)
(***************************************************************************)
EXTENDS Integers, Sequences, FiniteSets, TLC

VARIABLES meals_database, pc, ret, store, session_state, cache

vars == <<meals_database, pc, ret, store, session_state, cache>>

(***************************************************************************)
(* Bounds of the model.                                                    *)
(***************************************************************************)
\* num_recommendations is drawn from 0..MaxCount
MaxCount == 3
\* random.randint(a, b) is sampled at its RandLow smallest values and at b
RandLow == 2
\* meal_logs handed to analyze_nutrition_patterns have at most MaxLogs entries
MaxLogs == 5
\* calculate_macro_percentages is given whole grams from 0 to MaxGrams
MaxGrams == 6
\* meal_logs handed to format_nutrition_summary have at most MaxSummaryLogs entries
MaxSummaryLogs == 2
\* meal_logs handed to get_meal_timing_insights have at most MaxTimingLogs entries
MaxTimingLogs == 10
\* each log table of the store is filled up to MaxRows rows
MaxRows == 2

(***************************************************************************)
(* Exact rationals for Python's float arithmetic.                          *)
(***************************************************************************)
Abs(i) == IF i < 0 THEN -i ELSE i

RECURSIVE Gcd(_, _)
Gcd(a, b) == IF b = 0 THEN a ELSE Gcd(b, a % b)

\* the rational n/d (d # 0) in lowest terms with a positive denominator
Q(n, d) ==
  LET g == Gcd(Abs(n), Abs(d))
      s == IF d < 0 THEN -1 ELSE 1
  IN  <<(s * n) \div g, (s * d) \div g>>

R(i) == <<i, 1>>

QAdd(x, y) == Q(x[1] * y[2] + y[1] * x[2], x[2] * y[2])
QSub(x, y) == Q(x[1] * y[2] - y[1] * x[2], x[2] * y[2])
QMul(x, y) == Q(x[1] * y[1], x[2] * y[2])
QDiv(x, y) == Q(x[1] * y[2], x[2] * y[1])
QLt(x, y) == x[1] * y[2] < y[1] * x[2]
QLe(x, y) == x[1] * y[2] <= y[1] * x[2]
QAbs(x) == <<Abs(x[1]), x[2]>>
QMax(x, y) == IF QLt(x, y) THEN y ELSE x

(***************************************************************************)
(* Python str.lower() and the substring test `sub in s`.                   *)
(***************************************************************************)
UpperCase == "ABCDEFGHIJKLMNOPQRSTUVWXYZ"
LowerCase == "abcdefghijklmnopqrstuvwxyz"

\* the lower-case letter of each upper-case letter
LowerOf ==
  [c \in {SubSeq(UpperCase, i, i) : i \in 1..Len(UpperCase)} |->
     LET i == CHOOSE j \in 1..Len(UpperCase) : SubSeq(UpperCase, j, j) = c
     IN  SubSeq(LowerCase, i, i)]

lower_char(c) == IF c \in DOMAIN LowerOf THEN LowerOf[c] ELSE c

RECURSIVE lower_chars(_)
lower_chars(s) ==
  IF Len(s) = 0 THEN ""
  ELSE lower_char(SubSeq(s, 1, 1)) \o lower_chars(SubSeq(s, 2, Len(s)))

\* the strings the program lower-cases most often, lower-cased once
LowerCased ==
  [s \in {"Maintain weight", "Lose weight", "Gain weight", "Build muscle",
          "Improve overall health", "", "Vegetarian", "Vegan", "VEGAN",
          "Gluten-free", "Dairy-free", "Keto", "Paleo", "vegetarian", "vegan",
          "gluten-free", "dairy-free", "keto"} |-> lower_chars(s)]

lower(s) == IF s \in DOMAIN LowerCased THEN LowerCased[s] ELSE lower_chars(s)

str_in(sub, s) ==
  \E i \in 1..(Len(s) - Len(sub) + 1) : SubSeq(s, i, i + Len(sub) - 1) = sub

\* x in lst, for a list lst
list_in(x, lst) == \E i \in 1..Len(lst) : lst[i] = x

\* dict.get(key, default)
dict_get(d, key, default) == IF key \in DOMAIN d THEN d[key] ELSE default

\* d[key] = value on a dict: the key is added when it is absent
dict_set(d, key, value) ==
  [k \in DOMAIN d \cup {key} |-> IF k = key THEN value ELSE d[k]]

(***************************************************************************)
(* The static catalog built by MealRecommender.__init__.                   *)
(***************************************************************************)
BreakfastMeals ==
  << [name |-> "Greek Yogurt Parfait",
      description |-> "Greek yogurt layered with berries and granola",
      ingredients |-> <<"Greek yogurt", "mixed berries", "granola", "honey">>,
      calories |-> 280, protein |-> 18, carbs |-> 35, fat |-> 8,
      preparation_time |-> 5,
      dietary_tags |-> <<"vegetarian", "gluten-free">>,
      health_benefits |-> <<"probiotics", "antioxidants", "fiber">>],
     [name |-> "Avocado Toast",
      description |-> "Whole grain toast topped with mashed avocado and seasonings",
      ingredients |-> <<"whole grain bread", "avocado", "lime juice", "salt", "pepper">>,
      calories |-> 320, protein |-> 8, carbs |-> 25, fat |-> 22,
      preparation_time |-> 8,
      dietary_tags |-> <<"vegan", "vegetarian">>,
      health_benefits |-> <<"healthy fats", "fiber", "potassium">>],
     [name |-> "Protein Smoothie",
      description |-> "Blended smoothie with protein powder, fruits, and spinach",
      ingredients |-> <<"protein powder", "banana", "spinach", "almond milk", "berries">>,
      calories |-> 250, protein |-> 25, carbs |-> 20, fat |-> 5,
      preparation_time |-> 5,
      dietary_tags |-> <<"dairy-free", "vegetarian">>,
      health_benefits |-> <<"high protein", "vitamins", "antioxidants">>],
     [name |-> "Oatmeal Bowl",
      description |-> "Steel-cut oats with fruits, nuts, and cinnamon",
      ingredients |-> <<"steel-cut oats", "banana", "walnuts", "cinnamon", "maple syrup">>,
      calories |-> 350, protein |-> 12, carbs |-> 45, fat |-> 14,
      preparation_time |-> 15,
      dietary_tags |-> <<"vegan", "vegetarian", "gluten-free">>,
      health_benefits |-> <<"fiber", "complex carbs", "omega-3">>] >>

LunchMeals ==
  << [name |-> "Quinoa Buddha Bowl",
      description |-> "Colorful bowl with quinoa, roasted vegetables, and tahini dressing",
      ingredients |-> <<"quinoa", "sweet potato", "chickpeas", "kale", "tahini", "lemon">>,
      calories |-> 420, protein |-> 16, carbs |-> 55, fat |-> 16,
      preparation_time |-> 25,
      dietary_tags |-> <<"vegan", "vegetarian", "gluten-free">>,
      health_benefits |-> <<"complete protein", "fiber", "antioxidants">>],
     [name |-> "Grilled Chicken Salad",
      description |-> "Mixed greens with grilled chicken, vegetables, and vinaigrette",
      ingredients |-> <<"chicken breast", "mixed greens", "cherry tomatoes", "cucumber", "olive oil">>,
      calories |-> 380, protein |-> 35, carbs |-> 12, fat |-> 22,
      preparation_time |-> 20,
      dietary_tags |-> <<"gluten-free", "dairy-free">>,
      health_benefits |-> <<"lean protein", "vitamins", "healthy fats">>],
     [name |-> "Vegetable Stir-fry",
      description |-> "Mixed vegetables stir-fried with tofu and brown rice",
      ingredients |-> <<"tofu", "broccoli", "bell peppers", "brown rice", "soy sauce", "ginger">>,
      calories |-> 340, protein |-> 18, carbs |-> 42, fat |-> 12,
      preparation_time |-> 18,
      dietary_tags |-> <<"vegan", "vegetarian">>,
      health_benefits |-> <<"plant protein", "fiber", "vitamins">>],
     [name |-> "Turkey Wrap",
      description |-> "Whole wheat wrap with turkey, vegetables, and hummus",
      ingredients |-> <<"turkey breast", "whole wheat tortilla", "hummus", "lettuce", "tomatoes">>,
      calories |-> 390, protein |-> 28, carbs |-> 35, fat |-> 15,
      preparation_time |-> 10,
      dietary_tags |-> <<"dairy-free">>,
      health_benefits |-> <<"lean protein", "fiber", "B vitamins">>] >>

DinnerMeals ==
  << [name |-> "Baked Salmon",
      description |-> "Herb-crusted salmon with roasted vegetables and quinoa",
      ingredients |-> <<"salmon fillet", "asparagus", "quinoa", "herbs", "lemon", "olive oil">>,
      calories |-> 450, protein |-> 35, carbs |-> 28, fat |-> 22,
      preparation_time |-> 30,
      dietary_tags |-> <<"gluten-free", "dairy-free">>,
      health_benefits |-> <<"omega-3", "complete protein", "vitamins">>],
     [name |-> "Vegetarian Chili",
      description |-> "Hearty chili with beans, vegetables, and spices",
      ingredients |-> <<"black beans", "kidney beans", "tomatoes", "onions", "bell peppers", "spices">>,
      calories |-> 320, protein |-> 18, carbs |-> 52, fat |-> 4,
      preparation_time |-> 35,
      dietary_tags |-> <<"vegan", "vegetarian", "gluten-free">>,
      health_benefits |-> <<"fiber", "plant protein", "antioxidants">>],
     [name |-> "Lean Beef Stir-fry",
      description |-> "Lean beef strips with vegetables over brown rice",
      ingredients |-> <<"lean beef", "broccoli", "snap peas", "brown rice", "garlic", "soy sauce">>,
      calories |-> 410, protein |-> 30, carbs |-> 38, fat |-> 14,
      preparation_time |-> 22,
      dietary_tags |-> <<"dairy-free">>,
      health_benefits |-> <<"iron", "protein", "B vitamins">>],
     [name |-> "Stuffed Bell Peppers",
      description |-> "Bell peppers stuffed with turkey, rice, and vegetables",
      ingredients |-> <<"ground turkey", "bell peppers", "brown rice", "onions", "tomatoes">>,
      calories |-> 380, protein |-> 26, carbs |-> 32, fat |-> 16,
      preparation_time |-> 40,
      dietary_tags |-> <<"gluten-free", "dairy-free">>,
      health_benefits |-> <<"lean protein", "vitamins", "fiber">>] >>

SnackMeals ==
  << [name |-> "Apple with Almond Butter",
      description |-> "Sliced apple with natural almond butter",
      ingredients |-> <<"apple", "almond butter">>,
      calories |-> 190, protein |-> 6, carbs |-> 20, fat |-> 11,
      preparation_time |-> 2,
      dietary_tags |-> <<"vegan", "vegetarian", "gluten-free">>,
      health_benefits |-> <<"fiber", "healthy fats", "vitamin C">>],
     [name |-> "Protein Energy Balls",
      description |-> "No-bake energy balls with oats, dates, and protein powder",
      ingredients |-> <<"rolled oats", "dates", "protein powder", "chia seeds", "coconut">>,
      calories |-> 150, protein |-> 8, carbs |-> 18, fat |-> 5,
      preparation_time |-> 10,
      dietary_tags |-> <<"vegetarian", "gluten-free">>,
      health_benefits |-> <<"protein", "fiber", "natural sugars">>],
     [name |-> "Mixed Nuts",
      description |-> "Portion-controlled mix of raw almonds, walnuts, and cashews",
      ingredients |-> <<"almonds", "walnuts", "cashews">>,
      calories |-> 160, protein |-> 6, carbs |-> 6, fat |-> 14,
      preparation_time |-> 1,
      dietary_tags |-> <<"vegan", "vegetarian", "gluten-free", "keto">>,
      health_benefits |-> <<"healthy fats", "protein", "vitamin E">>],
     [name |-> "Veggie Hummus Plate",
      description |-> "Fresh vegetables with homemade hummus",
      ingredients |-> <<"carrots", "cucumbers", "bell peppers", "hummus">>,
      calories |-> 140, protein |-> 6, carbs |-> 16, fat |-> 6,
      preparation_time |-> 5,
      dietary_tags |-> <<"vegan", "vegetarian", "gluten-free">>,
      health_benefits |-> <<"fiber", "vitamins", "plant protein">>] >>
\* the dict's keys in insertion order
MealTypes == <<"Breakfast", "Lunch", "Dinner", "Snack">>

MealsDatabase ==
  [t \in {"Breakfast", "Lunch", "Dinner", "Snack"} |->
     CASE t = "Breakfast" -> BreakfastMeals
       [] t = "Lunch" -> LunchMeals
       [] t = "Dinner" -> DinnerMeals
       [] t = "Snack" -> SnackMeals]

\* lst[:n - 1]: a slice that stops one element early
list_head_short(lst, n) == SubSeq(lst, 1, IF n - 1 < Len(lst) THEN n - 1 ELSE Len(lst))

\* lst[:n] for n >= 0
list_head(lst, n) == SubSeq(lst, 1, IF n < Len(lst) THEN n ELSE Len(lst))

\* random.randint(a, b): the values a call may return
randint(a, b) == {x \in a..b : x - a < RandLow \/ x = b}

(***************************************************************************)
(* MealRecommender._filter_by_dietary_restrictions                         *)
(***************************************************************************)
lower_all(lst) == [i \in 1..Len(lst) |-> lower(lst[i])]

\* the loop body's verdict for one meal (lines 251-259)
satisfies_restrictions(meal, restrictions) ==
  LET meal_tags == lower_all(dict_get(meal, "dietary_tags", <<>>))
      restriction_tags == lower_all(restrictions)
  IN  \A i \in 1..Len(restriction_tags) : list_in(restriction_tags[i], meal_tags)

\* the filter without the lower() calls: tags compared as written
filter_case_sensitive(meals, restrictions) ==
  IF restrictions = <<>> THEN [i \in 1..Len(meals) |-> i]
  ELSE SelectSeq([i \in 1..Len(meals) |-> i],
                 LAMBDA i : \A k \in 1..Len(restrictions) :
                   list_in(restrictions[k], dict_get(meals[i], "dietary_tags", <<>>)))

\* the indices in meals of the dicts of the returned list
filter_by_dietary_restrictions(meals, restrictions) ==
  IF restrictions = <<>> THEN [i \in 1..Len(meals) |-> i]
  ELSE SelectSeq([i \in 1..Len(meals) |-> i],
                 LAMBDA i : satisfies_restrictions(meals[i], restrictions))

(***************************************************************************)
(* MealRecommender._score_meals                                            *)
(***************************************************************************)
meal_calorie_targets(daily_calories) ==
  [t \in {"Breakfast", "Lunch", "Dinner", "Snack"} |->
     CASE t = "Breakfast" -> QMul(daily_calories, Q(25, 100))
       [] t = "Lunch" -> QMul(daily_calories, Q(35, 100))
       [] t = "Dinner" -> QMul(daily_calories, Q(35, 100))
       [] t = "Snack" -> QMul(daily_calories, Q(5, 100))]

target_calories_of(user_profile, meal_type) ==
  LET daily_calories == dict_get(user_profile, "daily_calories", R(2000))
  IN  dict_get(meal_calorie_targets(daily_calories), meal_type,
               QMul(daily_calories, Q(25, 100)))

\* lines 285-288
calorie_term(meal, target_calories) ==
  LET calorie_diff == QAbs(QSub(R(meal.calories), target_calories))
      calorie_score == QMax(R(0), QSub(R(100),
                         QMul(QDiv(calorie_diff, target_calories), R(100))))
  IN  QMul(calorie_score, Q(3, 10))

\* lines 290-308
goal_term(meal, user_profile, target_calories) ==
  LET goal == lower(dict_get(user_profile, "goal", ""))
      protein == dict_get(meal, "protein", 0)
  IN  IF str_in("lose weight", goal)
      THEN (IF QLt(R(meal.calories), target_calories) THEN 20 ELSE 0)
           + (IF protein > 15 THEN 15 ELSE 0)
      ELSE IF str_in("gain weight", goal) \/ str_in("build muscle", goal)
      THEN (IF QLt(QMul(target_calories, Q(9, 10)), R(meal.calories)) THEN 20 ELSE 0)
           + (IF protein > 20 THEN 20 ELSE 0)
      ELSE IF str_in("maintain", goal)
      THEN LET protein_ratio == Q(protein * 4, meal.calories)
           IN  IF QLe(Q(15, 100), protein_ratio) /\ QLe(protein_ratio, Q(35, 100))
               THEN 15 ELSE 0
      ELSE 0

\* lines 310-312
health_term(meal) == Len(dict_get(meal, "health_benefits", <<>>)) * 2

\* the thresholds of lines 316 and 318 taken as strict
prep_term_strict(meal) ==
  LET prep_time == dict_get(meal, "preparation_time", 30)
  IN  IF prep_time < 10 THEN 10 ELSE IF prep_time < 20 THEN 5 ELSE 0

\* lines 314-319
prep_term(meal) ==
  LET prep_time == dict_get(meal, "preparation_time", 30)
  IN  IF prep_time <= 10 THEN 10 ELSE IF prep_time <= 20 THEN 5 ELSE 0

\* lines 324-333
macro_term(meal) ==
  LET protein == dict_get(meal, "protein", 0)
      carbs == dict_get(meal, "carbs", 0)
      fat == dict_get(meal, "fat", 0)
      total_macros == protein + carbs + fat
  IN  IF total_macros > 0
      THEN LET protein_ratio == Q(protein, total_macros)
               fat_ratio == Q(fat, total_macros)
           IN  IF /\ QLe(Q(15, 100), protein_ratio) /\ QLe(protein_ratio, Q(4, 10))
                  /\ QLe(Q(2, 10), fat_ratio) /\ QLe(fat_ratio, Q(4, 10))
               THEN 10 ELSE 0
      ELSE 0

\* the loop body raises: KeyError on meal['calories'], ZeroDivisionError on
\* the division by target_calories or by meal['calories']
score_raises(meal, user_profile, target_calories) ==
  LET goal == lower(dict_get(user_profile, "goal", ""))
  IN  \/ "calories" \notin DOMAIN meal
      \/ target_calories[1] = 0
      \/ /\ ~str_in("lose weight", goal)
         /\ ~(str_in("gain weight", goal) \/ str_in("build muscle", goal))
         /\ str_in("maintain", goal)
         /\ meal.calories = 0

\* the value of score at line 335; variety is what random.randint(0, 15) returned
meal_score(meal, user_profile, target_calories, variety) ==
  QAdd(calorie_term(meal, target_calories),
       R(goal_term(meal, user_profile, target_calories) + health_term(meal)
         + prep_term(meal) + variety + macro_term(meal)))

\* the loop without meal.copy(): the score is written into the catalog's dict
score_meal_in_place(meal, user_profile, target_calories, variety) ==
  LET scored == dict_set(meal, "ai_score",
                         meal_score(meal, user_profile, target_calories, variety))
  IN  [meal |-> scored, meal_copy |-> scored]

\* one pass of the loop (lines 281-336): the dict the loop read, as it is
\* afterwards, and the scored copy appended to scored_meals
score_meal(meal, user_profile, target_calories, variety) ==
  [meal |-> meal,
   meal_copy |-> dict_set(meal, "ai_score",
                          meal_score(meal, user_profile, target_calories, variety))]

\* meals: the list of dicts; refs: the indices of the dicts to score; rand[i]: the
\* value of the i-th random.randint call
score_meals(meals, refs, user_profile, meal_type, rand) ==
  LET target_calories == target_calories_of(user_profile, meal_type)
      raised == \E i \in 1..Len(refs) :
                  score_raises(meals[refs[i]], user_profile, target_calories)
      pass == [i \in 1..Len(refs) |->
                 score_meal(meals[refs[i]], user_profile, target_calories, rand[i])]
  IN  IF raised
      THEN [raised |-> TRUE, scored_meals |-> <<>>, meals |-> meals]
      ELSE [raised |-> FALSE,
            scored_meals |-> [i \in 1..Len(refs) |-> pass[i].meal_copy],
            meals |-> [j \in 1..Len(meals) |->
                         IF \E i \in 1..Len(refs) : refs[i] = j
                         THEN pass[CHOOSE i \in 1..Len(refs) : refs[i] = j].meal
                         ELSE meals[j]]]

(***************************************************************************)
(* MealRecommender.get_recommendations                                     *)
(***************************************************************************)
\* the filter's result used as it is, without the fallback of lines 227-229
filtered_meals_no_fallback(database, user_profile, meal_type) ==
  filter_by_dietary_restrictions(dict_get(database, meal_type, <<>>),
                                 dict_get(user_profile, "dietary_restrictions", <<>>))

\* filtered_meals at line 231, as indices into the partition of meal_type
filtered_meals_of(database, user_profile, meal_type) ==
  LET available_meals == dict_get(database, meal_type, <<>>)
      filtered_meals == filter_by_dietary_restrictions(
                          available_meals,
                          dict_get(user_profile, "dietary_restrictions", <<>>))
  IN  IF filtered_meals = <<>>
      THEN [i \in 1..Len(available_meals) |-> i]
      ELSE filtered_meals

\* an ascending sort read backwards: equal scores come out in reverse order
score_not_ascending(a, b) == QLe(b.ai_score, a.ai_score)

\* x['ai_score'] of a is ahead of b's under reverse=True
score_descending(a, b) == QLt(b.ai_score, a.ai_score)

\* scored_meals.sort(key=lambda x: x['ai_score'], reverse=True), a stable sort:
\* an element stays behind the earlier ones unless its key is strictly ahead
\* of theirs, and goes behind the later ones whose key is strictly ahead of its
sort_by_ai_score(lst) ==
  LET n == Len(lst)
      rank(i) == 1 + Cardinality({j \in 1..n :
                        \/ j < i /\ ~score_descending(lst[i], lst[j])
                        \/ j > i /\ score_descending(lst[j], lst[i])})
  IN  [p \in 1..n |-> lst[CHOOSE i \in 1..n : rank(i) = p]]

\* the body of the try block (lines 216-237)
recommendations_try(database, user_profile, meal_type, num_recommendations, rand) ==
  LET available_meals == dict_get(database, meal_type, <<>>)
      refs == filtered_meals_of(database, user_profile, meal_type)
      scored == score_meals(available_meals, refs, user_profile, meal_type, rand)
      sorted == sort_by_ai_score(scored.scored_meals)
  IN  IF available_meals = <<>>
      THEN [raised |-> FALSE, value |-> <<>>, meals |-> available_meals,
            scored_meals |-> <<>>]
      ELSE IF scored.raised
      THEN [raised |-> TRUE, value |-> <<>>, meals |-> scored.meals,
            scored_meals |-> <<>>]
      ELSE [raised |-> FALSE, value |-> list_head(sorted, num_recommendations),
            meals |-> scored.meals, scored_meals |-> scored.scored_meals]

\* the method without its try/except: a raise inside reaches the caller
get_recommendations_unguarded(database, user_profile, meal_type, num_recommendations, rand) ==
  LET try == recommendations_try(database, user_profile, meal_type,
                                 num_recommendations, rand)
  IN  [failed |-> try.raised,
       raised |-> try.raised,
       value |-> IF try.raised THEN <<>> ELSE try.value,
       meals |-> try.meals,
       scored_meals |-> try.scored_meals]

\* the whole method: `except Exception` turns a raise into the value []
\* failed: an exception was raised inside; raised: one reached the caller
get_recommendations(database, user_profile, meal_type, num_recommendations, rand) ==
  LET try == recommendations_try(database, user_profile, meal_type,
                                 num_recommendations, rand)
  IN  [failed |-> try.raised,
       raised |-> FALSE,
       value |-> IF try.raised THEN <<>> ELSE try.value,
       meals |-> try.meals,
       scored_meals |-> try.scored_meals]

(***************************************************************************)
(* MealRecommender.get_quick_meal_ideas                                    *)
(***************************************************************************)
\* self.meals_database.items() and the inner loop: every <<meal_type, index>>
\* in iteration order, from the k-th key on
RECURSIVE catalog_items(_, _)
catalog_items(database, k) ==
  IF k > Len(MealTypes) THEN <<>>
  ELSE [i \in 1..Len(database[MealTypes[k]]) |-> <<MealTypes[k], i>>]
       \o catalog_items(database, k + 1)

\* a 20-minute limit in place of line 346's 15
within_twenty_minutes(meal) == dict_get(meal, "preparation_time", 30) <= 20

\* line 346
within_quick_time(meal) == dict_get(meal, "preparation_time", 30) <= 15

\* any() in place of line 355's all()
passes_quick_filter_any(meal, dietary_restrictions) ==
  \/ dietary_restrictions = <<>>
  \/ LET meal_tags == lower_all(dict_get(meal, "dietary_tags", <<>>))
         restriction_tags == lower_all(dietary_restrictions)
     IN  \E i \in 1..Len(restriction_tags) : list_in(restriction_tags[i], meal_tags)

\* lines 351-356: the entry is not skipped by `continue`
passes_quick_filter(meal, dietary_restrictions) ==
  \/ dietary_restrictions = <<>>
  \/ LET meal_tags == lower_all(dict_get(meal, "dietary_tags", <<>>))
         restriction_tags == lower_all(dietary_restrictions)
     IN  \A i \in 1..Len(restriction_tags) : list_in(restriction_tags[i], meal_tags)

\* lines 347-348: the catalog dict as it is afterwards, and the tagged copy
quick_meal_of(meal, meal_type) ==
  [meal |-> meal, quick_meal |-> dict_set(meal, "meal_type", meal_type)]

\* x.get('preparation_time', 30) of a is ahead of b's
preparation_time_ascending(a, b) ==
  dict_get(a, "preparation_time", 30) < dict_get(b, "preparation_time", 30)

\* quick_meals.sort(key=lambda x: x.get('preparation_time', 30)), a stable sort
sort_by_preparation_time(lst) ==
  LET n == Len(lst)
      rank(i) == 1 + Cardinality({j \in 1..n :
                        \/ j < i /\ ~preparation_time_ascending(lst[i], lst[j])
                        \/ j > i /\ preparation_time_ascending(lst[j], lst[i])})
  IN  [p \in 1..n |-> lst[CHOOSE i \in 1..n : rank(i) = p]]

\* value: the returned list; database: the catalog after the call
get_quick_meal_ideas(database, dietary_restrictions) ==
  LET items == catalog_items(database, 1)
      timed == SelectSeq(items, LAMBDA it : within_quick_time(database[it[1]][it[2]]))
      copies == [n \in 1..Len(timed) |->
                   quick_meal_of(database[timed[n][1]][timed[n][2]], timed[n][1])]
      kept == SelectSeq([n \in 1..Len(timed) |-> n], LAMBDA n :
                passes_quick_filter(database[timed[n][1]][timed[n][2]],
                                    dietary_restrictions))
      quick_meals == [n \in 1..Len(kept) |-> copies[kept[n]].quick_meal]
  IN  [value |-> list_head(sort_by_preparation_time(quick_meals), 6),
       database |-> [t \in DOMAIN database |->
                       [i \in 1..Len(database[t]) |->
                          IF \E n \in 1..Len(timed) : timed[n] = <<t, i>>
                          THEN copies[CHOOSE n \in 1..Len(timed) : timed[n] = <<t, i>>].meal
                          ELSE database[t][i]]]]

(***************************************************************************)
(* MealRecommender.analyze_nutrition_patterns                              *)
(***************************************************************************)
\* sum(meal.get(key, 0) for meal in meal_logs)
RECURSIVE sum_of(_, _)
sum_of(meal_logs, key) ==
  IF meal_logs = <<>> THEN 0
  ELSE dict_get(Head(meal_logs), key, 0) + sum_of(Tail(meal_logs), key)

\* x cut off after its first decimal instead of rounded
round1_down(x) == Q((10 * x[1]) \div x[2], 10)

\* round(x, 1) for x >= 0: the nearest tenth, a tie going to the even tenth
\* (exact for the quotients the bounded logs and gram amounts produce: their
\* ties are multiples of 1/4, which floats hold exactly)
round1(x) ==
  LET tenths == (10 * x[1]) \div x[2]
      rest == (10 * x[1]) % x[2]
  IN  IF 2 * rest > x[2] \/ (2 * rest = x[2] /\ tenths % 2 = 1)
      THEN Q(tenths + 1, 10)
      ELSE Q(tenths, 10)

\* lines 378-381: the count of each meal_type present
meal_type_counts(meal_logs) ==
  [t \in {dict_get(meal_logs[i], "meal_type", "Unknown") : i \in 1..Len(meal_logs)} |->
     Cardinality({i \in 1..Len(meal_logs) :
                    dict_get(meal_logs[i], "meal_type", "Unknown") = t})]

LowProteinInsight ==
  "Consider increasing protein intake for better muscle maintenance and satiety."
LowCalorieInsight ==
  "Your average calorie intake seems low. Consider adding healthy snacks."
HighCalorieInsight ==
  "Your calorie intake is quite high. Consider portion control if weight loss is your goal."
BreakfastInsight ==
  "Don't skip breakfast! It helps maintain steady energy levels throughout the day."

\* a threshold of 10 in place of line 386's 15
protein_below_ten(avg_protein) == QLt(avg_protein, R(10))

\* line 386
protein_is_low(avg_protein) == QLt(avg_protein, R(15))

\* "at most a fifth" in place of line 394's "below a fifth"
breakfast_at_most_fifth(breakfast_count, total_meals) ==
  QLe(R(breakfast_count), QMul(R(total_meals), Q(2, 10)))

\* line 394: meal_types.get('Breakfast', 0) < total_meals * 0.2; the double
\* 0.2 is (2^54 + 1) / (5 * 2^54), so for total_meals = 5k the product is
\* k + k / 2^54, which rounds to k, and for other totals it lies strictly
\* between two integers: against an integer count the comparison is the exact one
breakfast_is_rare(breakfast_count, total_meals) ==
  QLt(R(breakfast_count), QMul(R(total_meals), Q(2, 10)))

analyze_nutrition_patterns(meal_logs) ==
  IF meal_logs = <<>>
  THEN [error |-> "No meal data available for analysis"]
  ELSE
    LET total_meals == Len(meal_logs)
        avg_calories == Q(sum_of(meal_logs, "calories"), total_meals)
        avg_protein == Q(sum_of(meal_logs, "protein"), total_meals)
        avg_carbs == Q(sum_of(meal_logs, "carbs"), total_meals)
        avg_fat == Q(sum_of(meal_logs, "fat"), total_meals)
        meal_types == meal_type_counts(meal_logs)
        insights ==
          (IF protein_is_low(avg_protein) THEN <<LowProteinInsight>> ELSE <<>>)
          \o (IF QLt(avg_calories, R(1200)) THEN <<LowCalorieInsight>>
              ELSE IF QLt(R(2500), avg_calories) THEN <<HighCalorieInsight>>
              ELSE <<>>)
          \o (IF breakfast_is_rare(dict_get(meal_types, "Breakfast", 0), total_meals)
              THEN <<BreakfastInsight>> ELSE <<>>)
    IN  [avg_calories |-> round1(avg_calories),
         avg_protein |-> round1(avg_protein),
         avg_carbs |-> round1(avg_carbs),
         avg_fat |-> round1(avg_fat),
         meal_distribution |-> meal_types,
         insights |-> insights,
         total_meals_analyzed |-> total_meals]

(***************************************************************************)
(* utils.calculate_bmr, utils.calculate_daily_calories                     *)
(***************************************************************************)
\* lines 9-12 with the age term added instead of subtracted
calculate_bmr_age_added(weight, height, age, gender) ==
  LET base == QAdd(QAdd(QMul(R(10), weight), QMul(Q(625, 100), R(height))),
                   QMul(R(5), R(age)))
  IN  IF lower(gender) = "male" THEN QAdd(base, R(5)) ELSE QSub(base, R(161))

\* weight is a float (a rational here), height and age are ints
calculate_bmr(weight, height, age, gender) ==
  LET base == QSub(QAdd(QMul(R(10), weight), QMul(Q(625, 100), R(height))),
                   QMul(R(5), R(age)))
  IN  IF lower(gender) = "male" THEN QAdd(base, R(5)) ELSE QSub(base, R(161))

\* the table with the "Very active" multiplier of the "Moderately active" row
activity_multipliers_very_as_moderate ==
  [l \in {"Sedentary (little/no exercise)",
          "Lightly active (light exercise 1-3 days/week)",
          "Moderately active (moderate exercise 3-5 days/week)",
          "Very active (hard exercise 6-7 days/week)",
          "Extremely active (very hard exercise, physical job)"} |->
     CASE l = "Sedentary (little/no exercise)" -> Q(12, 10)
       [] l = "Lightly active (light exercise 1-3 days/week)" -> Q(1375, 1000)
       [] l = "Moderately active (moderate exercise 3-5 days/week)" -> Q(155, 100)
       [] l = "Very active (hard exercise 6-7 days/week)" -> Q(155, 100)
       [] l = "Extremely active (very hard exercise, physical job)" -> Q(19, 10)]

\* lines 18-24
activity_multipliers ==
  [l \in {"Sedentary (little/no exercise)",
          "Lightly active (light exercise 1-3 days/week)",
          "Moderately active (moderate exercise 3-5 days/week)",
          "Very active (hard exercise 6-7 days/week)",
          "Extremely active (very hard exercise, physical job)"} |->
     CASE l = "Sedentary (little/no exercise)" -> Q(12, 10)
       [] l = "Lightly active (light exercise 1-3 days/week)" -> Q(1375, 1000)
       [] l = "Moderately active (moderate exercise 3-5 days/week)" -> Q(155, 100)
       [] l = "Very active (hard exercise 6-7 days/week)" -> Q(1725, 1000)
       [] l = "Extremely active (very hard exercise, physical job)" -> Q(19, 10)]

\* a default of 1 in place of line 26's 1.2
activity_multiplier_default_one(activity_level) ==
  dict_get(activity_multipliers, activity_level, R(1))

\* line 26
activity_multiplier(activity_level) ==
  dict_get(activity_multipliers, activity_level, Q(12, 10))

calculate_daily_calories(bmr, activity_level) ==
  QMul(bmr, activity_multiplier(activity_level))

(***************************************************************************)
(* utils.calculate_macro_percentages                                       *)
(***************************************************************************)
calculate_macro_percentages(protein, carbs, fat) ==
  LET protein_calories == QMul(protein, R(4))
      carb_calories == QMul(carbs, R(4))
      fat_calories == QMul(fat, R(9))
      total_calories == QAdd(QAdd(protein_calories, carb_calories), fat_calories)
  IN  IF total_calories = R(0)
      THEN [protein |-> R(0), carbs |-> R(0), fat |-> R(0)]
      ELSE [protein |-> round1(QMul(QDiv(protein_calories, total_calories), R(100))),
            carbs |-> round1(QMul(QDiv(carb_calories, total_calories), R(100))),
            fat |-> round1(QMul(QDiv(fat_calories, total_calories), R(100)))]

(***************************************************************************)
(* utils.format_nutrition_summary                                          *)
(***************************************************************************)
\* sum(meal.get(key, 0) for meal in meal_logs) over float fields
RECURSIVE nutrient_total(_, _)
nutrient_total(meal_logs, key) ==
  IF meal_logs = <<>> THEN R(0)
  ELSE QAdd(dict_get(Head(meal_logs), key, R(0)), nutrient_total(Tail(meal_logs), key))

\* a division whenever days is not 0, in place of lines 97-100's days > 0
daily_average_nonzero_days(total, days) ==
  IF days # 0 THEN QDiv(total, R(days)) ELSE R(0)

\* lines 97-100: total / days if days > 0 else 0
daily_average(total, days) ==
  IF days > 0 THEN QDiv(total, R(days)) ELSE R(0)

format_nutrition_summary(meal_logs, days) ==
  IF meal_logs = <<>>
  THEN [error |-> "No meal data available"]
  ELSE
    LET total_calories == nutrient_total(meal_logs, "calories")
        total_protein == nutrient_total(meal_logs, "protein")
        total_carbs == nutrient_total(meal_logs, "carbs")
        total_fat == nutrient_total(meal_logs, "fat")
    IN  [period_days |-> days,
         total_meals |-> Len(meal_logs),
         totals |-> [calories |-> round1(total_calories),
                     protein |-> round1(total_protein),
                     carbs |-> round1(total_carbs),
                     fat |-> round1(total_fat)],
         daily_averages |-> [calories |-> round1(daily_average(total_calories, days)),
                             protein |-> round1(daily_average(total_protein, days)),
                             carbs |-> round1(daily_average(total_carbs, days)),
                             fat |-> round1(daily_average(total_fat, days))],
         meal_distribution |-> meal_type_counts(meal_logs),
         macro_percentages |->
           calculate_macro_percentages(total_protein, total_carbs, total_fat)]

(***************************************************************************)
(* database.DatabaseManager: the range queries export_progress_to_csv uses. *)
(* db is the content of the store: its meal_logs, water_logs and mood_logs *)
(* tables, each a list of rows in insertion order.                         *)
(***************************************************************************)
\* the characters of dates and times, in code-point order
CharOrder == " -0123456789:"

char_rank(c) == CHOOSE i \in 1..Len(CharOrder) : SubSeq(CharOrder, i, i) = c

\* a < b for strings (TEXT columns compare byte by byte)
RECURSIVE str_lt(_, _)
str_lt(a, b) ==
  IF Len(b) = 0 THEN FALSE
  ELSE IF Len(a) = 0 THEN TRUE
  ELSE LET ca == char_rank(SubSeq(a, 1, 1))
           cb == char_rank(SubSeq(b, 1, 1))
       IN  IF ca # cb THEN ca < cb
           ELSE str_lt(SubSeq(a, 2, Len(a)), SubSeq(b, 2, Len(b)))

\* x BETWEEN low AND high
str_between(x, low, high) == ~str_lt(x, low) /\ ~str_lt(high, x)

\* SQLite date(logged_at) of a 'YYYY-MM-DD HH:MM' text
date_of(logged_at) == SubSeq(logged_at, 1, 10)

\* the rows of a list at the positions keep, in list order
RECURSIVE rows_where(_, _, _)
rows_where(rows, keep, i) ==
  IF i > Len(rows) THEN <<>>
  ELSE (IF i \in keep THEN <<rows[i]>> ELSE <<>>) \o rows_where(rows, keep, i + 1)

\* ORDER BY date, time: a is ahead of b
date_time_ascending(a, b) ==
  str_lt(a.date, b.date) \/ (a.date = b.date /\ str_lt(a.time, b.time))

\* ORDER BY logged_at: a is ahead of b
logged_at_ascending(a, b) == str_lt(a.logged_at, b.logged_at)

sort_by_date_time(lst) ==
  LET n == Len(lst)
      rank(i) == 1 + Cardinality({j \in 1..n :
                        \/ j < i /\ ~date_time_ascending(lst[i], lst[j])
                        \/ j > i /\ date_time_ascending(lst[j], lst[i])})
  IN  [p \in 1..n |-> lst[CHOOSE i \in 1..n : rank(i) = p]]

sort_by_logged_at(lst) ==
  LET n == Len(lst)
      rank(i) == 1 + Cardinality({j \in 1..n :
                        \/ j < i /\ ~logged_at_ascending(lst[i], lst[j])
                        \/ j > i /\ logged_at_ascending(lst[j], lst[i])})
  IN  [p \in 1..n |-> lst[CHOOSE i \in 1..n : rank(i) = p]]

\* the meals of the range, ordered by date and time
get_progress_data(db, start_date, end_date) ==
  sort_by_date_time(
    rows_where(db.meal_logs,
               {i \in 1..Len(db.meal_logs) :
                  str_between(db.meal_logs[i].date, start_date, end_date)}, 1))

\* the water logs of the range, ordered by logged_at, as {amount, date}
get_water_logs(db, start_date, end_date) ==
  LET rows == sort_by_logged_at(
                rows_where(db.water_logs,
                           {i \in 1..Len(db.water_logs) :
                              str_between(date_of(db.water_logs[i].logged_at),
                                          start_date, end_date)}, 1))
  IN  [i \in 1..Len(rows) |-> [amount |-> rows[i].amount, date |-> rows[i].logged_at]]

\* the mood logs of the range, ordered by logged_at, as {rating, notes, date}
get_mood_logs(db, start_date, end_date) ==
  LET rows == sort_by_logged_at(
                rows_where(db.mood_logs,
                           {i \in 1..Len(db.mood_logs) :
                              str_between(date_of(db.mood_logs[i].logged_at),
                                          start_date, end_date)}, 1))
  IN  [i \in 1..Len(rows) |->
         [rating |-> rows[i].rating, notes |-> rows[i].notes, date |-> rows[i].logged_at]]

(***************************************************************************)
(* utils.export_progress_to_csv.  A row is the list of fields handed to    *)
(* csv.writer.writerow, each field already converted with str().           *)
(***************************************************************************)
DigitChars == "0123456789"

digit_char(k) == SubSeq(DigitChars, k + 1, k + 1)

\* str(n) of an int n >= 0
RECURSIVE str_int(_)
str_int(n) == IF n < 10 THEN digit_char(n) ELSE str_int(n \div 10) \o digit_char(n % 10)

\* str(x) of a float x >= 0 with at most two decimals: 300.0, 12.25
str_float(x) ==
  LET whole == x[1] \div x[2]
      hundredths == ((x[1] % x[2]) * 100) \div x[2]
  IN  str_int(whole) \o "." \o
      (IF hundredths % 10 = 0 THEN digit_char(hundredths \div 10)
       ELSE digit_char(hundredths \div 10) \o digit_char(hundredths % 10))

\* a field as csv.writer writes it: quoted, with its quotes doubled, when it
\* holds a comma or a quote
RECURSIVE double_quotes(_)
double_quotes(s) ==
  IF Len(s) = 0 THEN ""
  ELSE (IF SubSeq(s, 1, 1) = "\"" THEN "\"\"" ELSE SubSeq(s, 1, 1))
       \o double_quotes(SubSeq(s, 2, Len(s)))

csv_field(s) ==
  IF str_in(",", s) \/ str_in("\"", s)
  THEN "\"" \o double_quotes(s) \o "\""
  ELSE s

\* writer.writerow(row): the fields joined by commas and ended by \r\n
RECURSIVE csv_line(_)
csv_line(row) ==
  IF row = <<>> THEN "\r\n"
  ELSE IF Len(row) = 1 THEN csv_field(row[1]) \o "\r\n"
  ELSE csv_field(row[1]) \o "," \o csv_line(Tail(row))

\* csv_buffer.getvalue() after the rows were written
RECURSIVE csv_text(_)
csv_text(rows) ==
  IF rows = <<>> THEN "" ELSE csv_line(Head(rows)) \o csv_text(Tail(rows))

\* csv_content.strip() is empty
RECURSIVE is_blank(_)
is_blank(s) ==
  \/ Len(s) = 0
  \/ /\ SubSeq(s, 1, 1) \in {" ", "\r", "\n", "\t"}
     /\ is_blank(SubSeq(s, 2, Len(s)))

MealHeader ==
  <<"Date", "Time", "Meal Name", "Meal Type", "Calories", "Protein (g)",
    "Carbs (g)", "Fat (g)">>
WaterHeader == <<"Date/Time", "Amount (ml)">>
MoodHeader == <<"Date/Time", "Rating (1-10)", "Notes">>

meal_rows(meal_data) ==
  [i \in 1..Len(meal_data) |->
     <<meal_data[i].date, meal_data[i].time, meal_data[i].meal_name,
       meal_data[i].meal_type, str_float(meal_data[i].calories),
       str_float(meal_data[i].protein), str_float(meal_data[i].carbs),
       str_float(meal_data[i].fat)>>]

water_rows(water_data) ==
  [i \in 1..Len(water_data) |->
     <<water_data[i].date, str_float(water_data[i].amount)>>]

mood_rows(mood_data) ==
  [i \in 1..Len(mood_data) |->
     <<mood_data[i].date, str_int(mood_data[i].rating), mood_data[i].notes>>]

\* lines 138-140
metadata_rows(now, start_date, end_date) ==
  << <<"Export Date", now>>,
     <<"Data Period", start_date \o " to " \o end_date>>,
     <<>> >>

\* lines 144-152
meal_section(meal_data) ==
  IF meal_data # <<>>
  THEN << <<"=== MEAL LOGS ===">>, MealHeader >> \o meal_rows(meal_data) \o << <<>> >>
  ELSE <<>>

\* the water section written without line 156's test
water_section_unguarded(water_data) ==
  << <<"=== WATER INTAKE LOGS ===">>, WaterHeader >> \o water_rows(water_data) \o << <<>> >>

\* lines 156-161
water_section(water_data) ==
  IF water_data # <<>>
  THEN << <<"=== WATER INTAKE LOGS ===">>, WaterHeader >> \o water_rows(water_data) \o << <<>> >>
  ELSE <<>>

\* lines 165-169
mood_section(mood_data) ==
  IF mood_data # <<>>
  THEN << <<"=== MOOD LOGS ===">>, MoodHeader >> \o mood_rows(mood_data)
  ELSE <<>>

\* the mood export written in the newest-first order
mood_logs_only_reversed(mood_data) ==
  <<MoodHeader>> \o [i \in 1..Len(mood_data) |->
                       mood_rows(mood_data)[Len(mood_data) + 1 - i]]

\* lines 188-190
mood_logs_only(mood_data) == <<MoodHeader>> \o mood_rows(mood_data)

\* the rows written for export_type (lines 136-190); none for an unknown type
export_rows(db, start_date, end_date, export_type, now) ==
  CASE export_type = "All Data" ->
         metadata_rows(now, start_date, end_date)
         \o meal_section(get_progress_data(db, start_date, end_date))
         \o water_section(get_water_logs(db, start_date, end_date))
         \o mood_section(get_mood_logs(db, start_date, end_date))
    [] export_type = "Meal Logs Only" ->
         <<MealHeader>> \o meal_rows(get_progress_data(db, start_date, end_date))
    [] export_type = "Water Intake Only" ->
         <<WaterHeader>> \o water_rows(get_water_logs(db, start_date, end_date))
    [] export_type = "Mood Logs Only" ->
         mood_logs_only(get_mood_logs(db, start_date, end_date))
    [] OTHER -> <<>>

\* rows: what was written; is_none: the call returned None; csv_content: the
\* text returned otherwise.  The store's queries catch their own failures,
\* so the except clause at 197-199 has nothing to catch.
export_progress_to_csv(db, start_date, end_date, export_type, now) ==
  LET rows == export_rows(db, start_date, end_date, export_type, now)
      csv_content == csv_text(rows)
  IN  [rows |-> rows,
       is_none |-> is_blank(csv_content),
       csv_content |-> IF is_blank(csv_content) THEN "" ELSE csv_content]

(***************************************************************************)
(* utils.get_meal_timing_insights                                          *)
(***************************************************************************)
\* time_str.split(':')[0]: the text before the first colon
RECURSIVE before_colon(_)
before_colon(s) ==
  IF Len(s) = 0 \/ SubSeq(s, 1, 1) = ":" THEN ""
  ELSE SubSeq(s, 1, 1) \o before_colon(SubSeq(s, 2, Len(s)))

is_digits(s) ==
  /\ Len(s) > 0
  /\ \A i \in 1..Len(s) : str_in(SubSeq(s, i, i), DigitChars)

digit_value(c) == (CHOOSE k \in 1..10 : SubSeq(DigitChars, k, k) = c) - 1

RECURSIVE int_of_digits(_)
int_of_digits(s) ==
  IF Len(s) = 0 THEN 0
  ELSE 10 * int_of_digits(SubSeq(s, 1, Len(s) - 1)) + digit_value(SubSeq(s, Len(s), Len(s)))

\* lines 240-241: raised is the ValueError of int() on a text that is not a
\* number (the inputs carry no sign, blank or underscore); hour is its value
hour_of(meal) ==
  LET text == before_colon(dict_get(meal, "time", "12:00"))
  IN  IF is_digits(text)
      THEN [raised |-> FALSE, hour |-> int_of_digits(text)]
      ELSE [raised |-> TRUE, hour |-> 0]

\* the buckets with noon counted as morning
time_bucket_noon_is_morning(hour) ==
  IF 5 <= hour /\ hour <= 12 THEN "morning"
  ELSE IF 12 <= hour /\ hour < 17 THEN "afternoon"
  ELSE "evening"

\* lines 243-248
time_bucket(hour) ==
  IF 5 <= hour /\ hour < 12 THEN "morning"
  ELSE IF 12 <= hour /\ hour < 17 THEN "afternoon"
  ELSE "evening"

\* the positions in meal_logs of the meals appended to a bucket (lines 238-250)
bucket_meals(meal_logs, bucket) ==
  rows_where([i \in 1..Len(meal_logs) |-> i],
             {i \in 1..Len(meal_logs) :
                /\ ~hour_of(meal_logs[i]).raised
                /\ time_bucket(hour_of(meal_logs[i]).hour) = bucket}, 1)

\* meal.get('time', '').startswith(('21:', '22:', '23:'))
starts_late(meal) ==
  LET time == dict_get(meal, "time", "")
  IN  Len(time) >= 3 /\ SubSeq(time, 1, 3) \in {"21:", "22:", "23:"}

NoTimingDataInsight == "No meal timing data available for analysis."
SkipMorningInsight ==
  "You tend to skip morning meals. Consider having a healthy breakfast to boost energy."
EveningInsight ==
  "Most of your meals are in the evening. Try distributing meals more evenly throughout the day."
MiddayInsight == "Great job having substantial midday nutrition!"
LateInsight ==
  "You eat late quite often. Try to have your last meal 2-3 hours before bedtime."
BalancedInsight == "Your meal timing patterns look balanced!"

\* value: the returned insights; the buckets are kept for inspection.  The
\* doubles 0.2, 0.5, 0.6 and total * 0.3 compare against the quotients and
\* counts exactly as the rationals do.
get_meal_timing_insights(meal_logs) ==
  IF meal_logs = <<>>
  THEN [value |-> <<NoTimingDataInsight>>,
        morning_meals |-> <<>>, afternoon_meals |-> <<>>, evening_meals |-> <<>>]
  ELSE
    LET morning_meals == bucket_meals(meal_logs, "morning")
        afternoon_meals == bucket_meals(meal_logs, "afternoon")
        evening_meals == bucket_meals(meal_logs, "evening")
        total_meals == Len(meal_logs)
        late_meals == Cardinality({i \in 1..Len(meal_logs) : starts_late(meal_logs[i])})
        insights ==
          (IF QLt(Q(Len(morning_meals), total_meals), Q(2, 10))
           THEN <<SkipMorningInsight>> ELSE <<>>)
          \o (IF QLt(Q(5, 10), Q(Len(evening_meals), total_meals))
              THEN <<EveningInsight>> ELSE <<>>)
          \o (IF QLt(Q(6, 10), Q(Len(afternoon_meals), total_meals))
              THEN <<MiddayInsight>> ELSE <<>>)
          \o (IF QLt(QMul(R(total_meals), Q(3, 10)), R(late_meals))
              THEN <<LateInsight>> ELSE <<>>)
    IN  [value |-> IF insights = <<>> THEN <<BalancedInsight>> ELSE insights,
         morning_meals |-> morning_meals,
         afternoon_meals |-> afternoon_meals,
         evening_meals |-> evening_meals]

(***************************************************************************)
(* Python values as the sqlite3 module hands them to the store and back.   *)
(* A value carries its Python type; n/d is the number of an int or float,  *)
(* s the text of a str.                                                    *)
(***************************************************************************)
None == [none |-> TRUE]

PyInt(i) == [type |-> "int", n |-> i, d |-> 1, s |-> ""]
PyFloat(q) == [type |-> "float", n |-> q[1], d |-> q[2], s |-> ""]
PyStr(x) == [type |-> "str", n |-> 0, d |-> 1, s |-> x]
PyNone == [type |-> "NoneType", n |-> 0, d |-> 1, s |-> ""]

is_number(v) == v.type \in {"int", "float"}

\* Python's ==: an int and a float are equal when their numbers are
py_eq(a, b) ==
  IF is_number(a) /\ is_number(b) THEN a.n * b.d = b.n * a.d ELSE a = b

\* a column declared INTEGER keeps the fraction of what it is given
real_affinity_as_integer(v) ==
  CASE v.type = "int" -> v
    [] v.type = "float" -> PyInt(v.n \div v.d)
    [] v.type = "str" /\ is_digits(v.s) -> PyInt(int_of_digits(v.s))
    [] OTHER -> v

\* a column declared REAL: an integer, or a text that is a number, is stored
\* as a float (exactly, below 2^53); anything else is stored as it is
real_affinity(v) ==
  CASE v.type = "int" -> PyFloat(R(v.n))
    [] v.type = "str" /\ is_digits(v.s) -> PyFloat(R(int_of_digits(v.s)))
    [] OTHER -> v

\* a column declared INTEGER: a float without a fraction, or a text that is a
\* whole number, is stored as an integer
integer_affinity(v) ==
  CASE v.type = "float" /\ v.d = 1 -> PyInt(v.n)
    [] v.type = "str" /\ is_digits(v.s) -> PyInt(int_of_digits(v.s))
    [] OTHER -> v

(***************************************************************************)
(* json.dumps and json.loads of a list of strings (dietary_restrictions).  *)
(* The strings are the options of the profile form: no quote, no backslash *)
(* and no character outside ASCII.                                         *)
(***************************************************************************)
RECURSIVE json_items(_, _)
json_items(lst, i) ==
  IF i > Len(lst) THEN ""
  ELSE (IF i > 1 THEN ", " ELSE "") \o "\"" \o lst[i] \o "\"" \o json_items(lst, i + 1)

json_dumps(lst) == "[" \o json_items(lst, 1) \o "]"

\* the strings between the quotes of text from position i on; inside is TRUE
\* while a string is being read into item
RECURSIVE json_strings(_, _, _, _)
json_strings(text, i, inside, item) ==
  IF i > Len(text) THEN <<>>
  ELSE LET c == SubSeq(text, i, i)
       IN  IF c = "\""
           THEN IF inside
                THEN <<item>> \o json_strings(text, i + 1, FALSE, "")
                ELSE json_strings(text, i + 1, TRUE, "")
           ELSE json_strings(text, i + 1, inside, IF inside THEN item \o c ELSE "")

json_loads(text) == json_strings(text, 1, FALSE, "")

(***************************************************************************)
(* database.DatabaseManager.  store is the content of the database file:   *)
(* the tables that exist and the rows of each, in insertion order.  Every  *)
(* method opens its own connection; fault is TRUE when sqlite3 raises in   *)
(* the call: the file cannot be opened, the disk fails, or the file is     *)
(* still locked by the connection that an earlier call left open when its  *)
(* INSERT broke a constraint.  What was not committed is rolled back when  *)
(* the connection is dropped.                                              *)
(***************************************************************************)
EmptyStore ==
  [tables |-> {}, user_profile |-> <<>>, meal_logs |-> <<>>, water_logs |-> <<>>,
   mood_logs |-> <<>>]

\* the CREATE TABLE statements of init_database, in order
TableOrder == <<"user_profile", "meal_logs", "water_logs", "mood_logs">>

\* init_database has no try/except.  created is the number of CREATE TABLE
\* statements that ran before sqlite3 raised (all four when it did not);
\* each takes effect at once, and IF NOT EXISTS leaves an existing table alone
init_database(db, created) ==
  [store |-> [db EXCEPT !.tables = @ \cup {TableOrder[k] : k \in 1..created}],
   raised |-> created < Len(TableOrder),
   value |-> None]

\* d[key] for each key raises KeyError unless the dict has them all
has_keys(d, keys) == keys \subseteq DOMAIN d

ProfileKeys ==
  {"name", "age", "weight", "height", "gender", "activity_level", "goal",
   "allergies", "daily_calories", "bmr"}

\* the row written for profile_data; the form gives ints for age and height,
\* floats for weight, daily_calories and bmr, and the column affinities keep
\* them as they are
profile_row(profile_data) ==
  [name |-> profile_data.name, age |-> profile_data.age,
   weight |-> profile_data.weight, height |-> profile_data.height,
   gender |-> profile_data.gender, activity_level |-> profile_data.activity_level,
   goal |-> profile_data.goal,
   dietary_restrictions |-> json_dumps(dict_get(profile_data, "dietary_restrictions", <<>>)),
   allergies |-> profile_data.allergies,
   daily_calories |-> profile_data.daily_calories, bmr |-> profile_data.bmr]

\* no row is ever found, so every save inserts
existing_profile_never(db) == 0

\* SELECT id FROM user_profile LIMIT 1: the position of the row, 0 for none
existing_profile(db) == IF Len(db.user_profile) > 0 THEN 1 ELSE 0

save_user_profile(db, profile_data, fault) ==
  IF fault \/ "user_profile" \notin db.tables \/ ~has_keys(profile_data, ProfileKeys)
  THEN [store |-> db, raised |-> FALSE, value |-> FALSE]
  ELSE LET existing == existing_profile(db)
           row == profile_row(profile_data)
       IN  [store |-> IF existing > 0
                      THEN [db EXCEPT !.user_profile[existing] = row]
                      ELSE [db EXCEPT !.user_profile = Append(@, row)],
            raised |-> FALSE,
            value |-> TRUE]

\* the dict built from a row (lines 140-152)
profile_of_row(row) ==
  [name |-> row.name, age |-> row.age, weight |-> row.weight, height |-> row.height,
   gender |-> row.gender, activity_level |-> row.activity_level, goal |-> row.goal,
   dietary_restrictions |->
     IF row.dietary_restrictions # "" THEN json_loads(row.dietary_restrictions) ELSE <<>>,
   allergies |-> row.allergies, daily_calories |-> row.daily_calories, bmr |-> row.bmr]

\* ORDER BY updated_at DESC LIMIT 1.  updated_at has a resolution of one
\* second, so among several rows any one may come first: the set of the
\* results the call can give
get_user_profile(db, fault) ==
  IF fault \/ "user_profile" \notin db.tables \/ db.user_profile = <<>>
  THEN {None}
  ELSE {profile_of_row(db.user_profile[i]) : i \in 1..Len(db.user_profile)}

MealKeys ==
  {"meal_name", "meal_type", "calories", "protein", "carbs", "fat", "date", "time"}

\* the row INSERTed by log_meal: calories, protein, carbs and fat are REAL
meal_row(meal_data) ==
  [meal_name |-> meal_data.meal_name, meal_type |-> meal_data.meal_type,
   calories |-> real_affinity(meal_data.calories),
   protein |-> real_affinity(meal_data.protein),
   carbs |-> real_affinity(meal_data.carbs),
   fat |-> real_affinity(meal_data.fat),
   date |-> meal_data.date, time |-> meal_data.time]

\* calories is NOT NULL (the text columns are given strings)
log_meal(db, meal_data, fault) ==
  IF \/ fault
     \/ "meal_logs" \notin db.tables
     \/ ~has_keys(meal_data, MealKeys)
     \/ meal_row(meal_data).calories.type = "NoneType"
  THEN [store |-> db, raised |-> FALSE, value |-> FALSE]
  ELSE [store |-> [db EXCEPT !.meal_logs = Append(@, meal_row(meal_data))],
        raised |-> FALSE, value |-> TRUE]

\* log_water keeping only the row it writes
log_water_keeping_last(db, amount, logged_at, fault) ==
  IF fault \/ "water_logs" \notin db.tables \/ amount.type = "NoneType"
  THEN [store |-> db, raised |-> FALSE, value |-> FALSE]
  ELSE [store |-> [db EXCEPT !.water_logs =
                     <<[amount |-> real_affinity(amount), logged_at |-> logged_at]>>],
        raised |-> FALSE, value |-> TRUE]

\* amount is REAL NOT NULL
log_water(db, amount, logged_at, fault) ==
  IF fault \/ "water_logs" \notin db.tables \/ amount.type = "NoneType"
  THEN [store |-> db, raised |-> FALSE, value |-> FALSE]
  ELSE [store |-> [db EXCEPT !.water_logs =
                     Append(@, [amount |-> real_affinity(amount), logged_at |-> logged_at])],
        raised |-> FALSE, value |-> TRUE]

\* the CHECK with its upper limit left out
check_rating_no_upper(v) == IF is_number(v) THEN v.d <= v.n ELSE v.type = "str"

\* CHECK (rating >= 1 AND rating <= 10); a text is above every number
check_rating(v) == is_number(v) /\ v.d <= v.n /\ v.n <= 10 * v.d

\* rating is INTEGER NOT NULL with the CHECK
log_mood(db, rating, notes, logged_at, fault) ==
  IF \/ fault
     \/ "mood_logs" \notin db.tables
     \/ rating.type = "NoneType"
     \/ ~check_rating(integer_affinity(rating))
  THEN [store |-> db, raised |-> FALSE, value |-> FALSE]
  ELSE [store |-> [db EXCEPT !.mood_logs =
                     Append(@, [rating |-> integer_affinity(rating), notes |-> notes,
                                logged_at |-> logged_at])],
        raised |-> FALSE, value |-> TRUE]

\* the day of the month of a 'YYYY-MM-DD' text
day_of(date) == int_of_digits(SubSeq(date, 9, 10))

\* date('now', '-N days') for a today whose day of the month is above N
date_minus_days(today, days) ==
  LET day == day_of(today) - days
  IN  SubSeq(today, 1, 8) \o (IF day < 10 THEN "0" ELSE "") \o str_int(day)

\* ORDER BY date DESC, time DESC: a is ahead of b
date_time_descending(a, b) ==
  str_lt(b.date, a.date) \/ (a.date = b.date /\ str_lt(b.time, a.time))

sort_by_date_time_desc(lst) ==
  LET n == Len(lst)
      rank(i) == 1 + Cardinality({j \in 1..n :
                        \/ j < i /\ ~date_time_descending(lst[i], lst[j])
                        \/ j > i /\ date_time_descending(lst[j], lst[i])})
  IN  [p \in 1..n |-> lst[CHOOSE i \in 1..n : rank(i) = p]]

\* the meals dated at or after date('now', '-days days'), latest first
get_recent_meals(db, days, today, fault) ==
  IF fault \/ "meal_logs" \notin db.tables THEN <<>>
  ELSE sort_by_date_time_desc(
         rows_where(db.meal_logs,
                    {i \in 1..Len(db.meal_logs) :
                       ~str_lt(db.meal_logs[i].date, date_minus_days(today, days))}, 1))

\* SUM(column) over rows: NULL for no number at all, else the float sum
RECURSIVE sum_column(_, _, _)
sum_column(rows, column, i) ==
  IF i > Len(rows) THEN PyNone
  ELSE LET rest == sum_column(rows, column, i + 1)
           v == rows[i][column]
       IN  IF ~is_number(v) THEN rest
           ELSE IF rest.type = "NoneType" THEN PyFloat(<<v.n, v.d>>)
           ELSE PyFloat(QAdd(<<v.n, v.d>>, <<rest.n, rest.d>>))

\* `x or 0`
or_zero(v) == IF v.type = "NoneType" \/ (is_number(v) /\ v.n = 0) THEN PyInt(0) ELSE v

get_daily_nutrition_totals(db, date, fault) ==
  IF fault \/ "meal_logs" \notin db.tables THEN None
  ELSE LET rows == rows_where(db.meal_logs,
                              {i \in 1..Len(db.meal_logs) : db.meal_logs[i].date = date}, 1)
           total_calories == sum_column(rows, "calories", 1)
       IN  IF total_calories.type = "NoneType" THEN None
           ELSE [total_calories |-> or_zero(total_calories),
                 total_protein |-> or_zero(sum_column(rows, "protein", 1)),
                 total_carbs |-> or_zero(sum_column(rows, "carbs", 1)),
                 total_fat |-> or_zero(sum_column(rows, "fat", 1))]

\* a range query of the class: [] when sqlite3 raises or the table is missing
range_query(db, table, fault, rows) ==
  IF fault \/ table \notin db.tables THEN <<>> ELSE rows

(***************************************************************************)
(* nutrition_api.OpenFoodFactsAPI.  cache is the dict self.cache.  What    *)
(* the server answers to a request is an input of the call: response.error *)
(* is "request" when requests.get or raise_for_status raises, "json" when  *)
(* the body does not parse, and "none" when response.data is the parsed    *)
(* body.  The numbers of a product are Python values as the body gives     *)
(* them; its texts are strings.                                            *)
(***************************************************************************)
upper_char(c) ==
  IF \E i \in 1..Len(LowerCase) : SubSeq(LowerCase, i, i) = c
  THEN LET i == CHOOSE j \in 1..Len(LowerCase) : SubSeq(LowerCase, j, j) = c
       IN  SubSeq(UpperCase, i, i)
  ELSE c

RECURSIVE upper(_)
upper(s) ==
  IF Len(s) = 0 THEN ""
  ELSE upper_char(SubSeq(s, 1, 1)) \o upper(SubSeq(s, 2, Len(s)))

RECURSIVE lstrip(_)
lstrip(s) ==
  IF Len(s) > 0 /\ SubSeq(s, 1, 1) = " " THEN lstrip(SubSeq(s, 2, Len(s))) ELSE s

RECURSIVE rstrip(_)
rstrip(s) ==
  IF Len(s) > 0 /\ SubSeq(s, Len(s), Len(s)) = " "
  THEN rstrip(SubSeq(s, 1, Len(s) - 1))
  ELSE s

\* str.strip() of a text whose only whitespace is the blank
strip(s) == rstrip(lstrip(s))

\* the key built from the query as it was typed
search_cache_key_as_typed(query) == "search_" \o strip(query)

\* line 21
search_cache_key(query) == "search_" \o strip(lower(query))

\* line 68
barcode_cache_key(barcode) == "barcode_" \o barcode

\* float(v): raised on a text that is no number (ValueError) and on None
\* (TypeError)
py_float(v) ==
  CASE v.type = "int" -> [raised |-> FALSE, value |-> PyFloat(R(v.n))]
    [] v.type = "float" -> [raised |-> FALSE, value |-> v]
    [] v.type = "str" /\ is_digits(v.s) ->
         [raised |-> FALSE, value |-> PyFloat(R(int_of_digits(v.s)))]
    [] OTHER -> [raised |-> TRUE, value |-> PyNone]

\* _has_nutrition_data: energy_kcal_100g is there and is not None
has_nutrition_data(product) ==
  dict_get(product, "energy_kcal_100g", PyNone).type # "NoneType"

NumberFields ==
  {"energy_kcal_100g", "proteins_100g", "carbohydrates_100g", "fat_100g",
   "fiber_100g", "sugars_100g", "salt_100g"}

\* _extract_nutrition_data: the normalised record, or the record of zeros
\* when a float() raised
extract_nutrition_data(product) ==
  LET number(field) == py_float(dict_get(product, field, PyInt(0)))
  IN  IF \E field \in NumberFields : number(field).raised
      THEN [product_name |-> dict_get(product, "product_name", "Unknown Product"),
            brands |-> dict_get(product, "brands", ""),
            nutriscore_grade |-> "",
            energy_kcal_100g |-> PyInt(0), proteins_100g |-> PyInt(0),
            carbohydrates_100g |-> PyInt(0), fat_100g |-> PyInt(0),
            fiber_100g |-> PyInt(0), sugars_100g |-> PyInt(0), salt_100g |-> PyInt(0),
            ingredients_text |-> ""]
      ELSE [product_name |-> dict_get(product, "product_name", "Unknown Product"),
            brands |-> dict_get(product, "brands", ""),
            nutriscore_grade |-> upper(dict_get(product, "nutriscore_grade", "")),
            energy_kcal_100g |-> number("energy_kcal_100g").value,
            proteins_100g |-> number("proteins_100g").value,
            carbohydrates_100g |-> number("carbohydrates_100g").value,
            fat_100g |-> number("fat_100g").value,
            fiber_100g |-> number("fiber_100g").value,
            sugars_100g |-> number("sugars_100g").value,
            salt_100g |-> number("salt_100g").value,
            ingredients_text |-> dict_get(product, "ingredients_text", "")]

\* the position of the first product with nutrition data, 0 when there is none
first_with_nutrition(products) ==
  IF \E i \in 1..Len(products) : has_nutrition_data(products[i])
  THEN CHOOSE i \in 1..Len(products) :
         /\ has_nutrition_data(products[i])
         /\ \A j \in 1..(i - 1) : ~has_nutrition_data(products[j])
  ELSE 0

\* lines 25-61 without line 48: what the request yields, None on any failure
search_lookup(response) ==
  IF response.error # "none" THEN None
  ELSE LET products == dict_get(response.data, "products", <<>>)
           i == first_with_nutrition(products)
       IN  IF i = 0 THEN None ELSE extract_nutrition_data(products[i])

\* search_food storing whatever the request yielded
search_food_caching_all(api_cache, query, response) ==
  IF query = "" \/ Len(strip(query)) < 2
  THEN [value |-> None, cache |-> api_cache, requested |-> FALSE]
  ELSE LET cache_key == search_cache_key(query)
       IN  IF cache_key \in DOMAIN api_cache
           THEN [value |-> api_cache[cache_key], cache |-> api_cache, requested |-> FALSE]
           ELSE [value |-> search_lookup(response),
                 cache |-> dict_set(api_cache, cache_key, search_lookup(response)),
                 requested |-> TRUE]

\* search_food: requested is TRUE when requests.get was called
search_food(api_cache, query, response) ==
  IF query = "" \/ Len(strip(query)) < 2
  THEN [value |-> None, cache |-> api_cache, requested |-> FALSE]
  ELSE LET cache_key == search_cache_key(query)
           nutrition_data == search_lookup(response)
       IN  IF cache_key \in DOMAIN api_cache
           THEN [value |-> api_cache[cache_key], cache |-> api_cache, requested |-> FALSE]
           ELSE [value |-> nutrition_data,
                 cache |-> IF nutrition_data # None
                           THEN dict_set(api_cache, cache_key, nutrition_data)
                           ELSE api_cache,
                 requested |-> TRUE]

\* lines 72-93 without line 83
barcode_lookup(response) ==
  IF response.error # "none" THEN None
  ELSE IF dict_get(response.data, "status", 0) = 1 /\ "product" \in DOMAIN response.data
       THEN IF has_nutrition_data(response.data.product)
            THEN extract_nutrition_data(response.data.product)
            ELSE None
       ELSE None

get_product_by_barcode(api_cache, barcode, response) ==
  IF barcode = "" \/ ~is_digits(barcode)
  THEN [value |-> None, cache |-> api_cache, requested |-> FALSE]
  ELSE LET cache_key == barcode_cache_key(barcode)
           nutrition_data == barcode_lookup(response)
       IN  IF cache_key \in DOMAIN api_cache
           THEN [value |-> api_cache[cache_key], cache |-> api_cache, requested |-> FALSE]
           ELSE [value |-> nutrition_data,
                 cache |-> IF nutrition_data # None
                           THEN dict_set(api_cache, cache_key, nutrition_data)
                           ELSE api_cache,
                 requested |-> TRUE]

(***************************************************************************)
(* Inputs.                                                                 *)
(***************************************************************************)
\* the profiles handed to get_recommendations: the five goals of the profile
\* form, restriction lists that match some, all or no entries, a profile
\* without daily_calories and dietary_restrictions, and profiles whose
\* daily_calories is 0 or negative
Profiles ==
  { [goal |-> g, dietary_restrictions |-> <<>>, daily_calories |-> R(2000)] :
      g \in {"Maintain weight", "Lose weight", "Gain weight", "Build muscle",
             "Improve overall health"} }
  \cup
  { [goal |-> "Lose weight", dietary_restrictions |-> r, daily_calories |-> R(2001)] :
      r \in {<<"Vegetarian", "Gluten-free">>, <<"VEGAN">>, <<"Keto">>,
             <<"Keto", "Paleo">>, <<"Dairy-free">>} }
  \cup
  { [goal |-> "Build muscle"],
    [goal |-> "Maintain weight", dietary_restrictions |-> <<>>, daily_calories |-> R(0)],
    [goal |-> "Gain weight", dietary_restrictions |-> <<"Paleo">>, daily_calories |-> R(0)],
    [goal |-> "Maintain weight", dietary_restrictions |-> <<>>, daily_calories |-> R(-1500)] }

MealTypeInputs == {"Breakfast", "Lunch", "Dinner", "Snack", "Brunch"}

\* the filters handed to get_quick_meal_ideas (None behaves as the empty list)
QuickRestrictionInputs ==
  {<<>>, <<"Vegan">>, <<"VEGAN">>, <<"Keto">>, <<"Dairy-free">>,
   <<"Vegetarian", "Gluten-free">>, <<"Keto", "Dairy-free">>}

\* the logged meals handed to analyze_nutrition_patterns
LogEntries ==
  { [meal_type |-> "Breakfast", calories |-> 300, protein |-> 10, carbs |-> 40, fat |-> 10],
    [meal_type |-> "Lunch", calories |-> 1200, protein |-> 20, carbs |-> 150, fat |-> 45],
    [meal_type |-> "Dinner", calories |-> 3800, protein |-> 30, carbs |-> 500, fat |-> 120],
    [calories |-> 450, carbs |-> 55] }

RECURSIVE SeqsUpTo(_, _)
SeqsUpTo(S, n) ==
  IF n = 0 THEN {<<>>}
  ELSE SeqsUpTo(S, n - 1) \cup {Append(s, x) : s \in SeqsUpTo(S, n - 1), x \in S}

MealLogInputs == SeqsUpTo(LogEntries, MaxLogs)

\* the values of the profile form: weight (kg) in 30.0..300.0, height (cm) in
\* 100..250, age in 18..120, and the gender strings calculate_bmr may be given
WeightInputs == {R(30), Q(3001, 100), R(70), Q(705, 10), Q(29999, 100), R(300)}
HeightInputs == {100, 170, 171, 250}
AgeInputs == {18, 25, 120}
GenderInputs == {"Male", "Female", "male", "Other"}

\* the activity levels of the profile form and strings that are not keys
ActivityLevelInputs ==
  DOMAIN activity_multipliers
  \cup {"Sedentary", "sedentary (little/no exercise)", ""}

\* the bmr values handed to calculate_daily_calories
BmrInputs ==
  {calculate_bmr(w, h, 25, g) : w \in {R(70), Q(705, 10)}, h \in {170, 171},
                                 g \in {"male", "Female"}}
  \cup {R(0), R(-100)}

\* the gram amounts handed to calculate_macro_percentages
MacroGramInputs == {R(g) : g \in 0..MaxGrams}

\* the logged meals handed to format_nutrition_summary: the REAL columns of
\* meal_logs hold floats, and a dict may lack a key
SummaryLogEntries ==
  { [meal_type |-> "Breakfast", calories |-> R(300), protein |-> Q(49, 4),
     carbs |-> R(40), fat |-> R(10)],
    [meal_type |-> "Lunch", calories |-> R(650), protein |-> R(35),
     carbs |-> R(60), fat |-> R(25)],
    [meal_type |-> "Snack", calories |-> R(0), protein |-> R(0),
     carbs |-> R(0), fat |-> R(0)],
    [calories |-> R(100)] }

SummaryLogInputs == SeqsUpTo(SummaryLogEntries, MaxSummaryLogs)

\* the periods handed to format_nutrition_summary (the app passes 7)
DaysInputs == {-1, 0, 1, 7}

\* the contents of the store handed to export_progress_to_csv: meals logged
\* out of date order, one with a comma in its name, and empty tables
MealTableInputs ==
  { <<>>,
    << [meal_name |-> "Oatmeal", meal_type |-> "Breakfast", calories |-> R(300),
        protein |-> Q(49, 4), carbs |-> R(40), fat |-> R(10),
        date |-> "2024-01-10", time |-> "08:30"] >>,
    << [meal_name |-> "Chicken, rice", meal_type |-> "Dinner", calories |-> R(650),
        protein |-> R(35), carbs |-> R(60), fat |-> R(25),
        date |-> "2024-01-12", time |-> "19:00"],
       [meal_name |-> "Oatmeal", meal_type |-> "Breakfast", calories |-> R(300),
        protein |-> Q(49, 4), carbs |-> R(40), fat |-> R(10),
        date |-> "2024-01-10", time |-> "08:30"] >> }

WaterTableInputs ==
  { <<>>, << [amount |-> R(250), logged_at |-> "2024-01-10 09:00"] >> }

MoodTableInputs ==
  { <<>>,
    << [rating |-> 7, notes |-> "slept well", logged_at |-> "2024-01-12 21:00"],
       [rating |-> 4, notes |-> "", logged_at |-> "2024-01-12 07:45"] >> }

StoreInputs ==
  [meal_logs : MealTableInputs, water_logs : WaterTableInputs,
   mood_logs : MoodTableInputs]

\* the date ranges of the export form: all of the logs, the later ones, none
DateRangeInputs ==
  { <<"2024-01-01", "2024-01-31">>, <<"2024-01-11", "2024-01-31">>,
    <<"2024-02-01", "2024-02-29">> }

\* the four export types of the form and a string that is none of them
ExportTypeInputs ==
  {"All Data", "Meal Logs Only", "Water Intake Only", "Mood Logs Only", "Everything"}

\* datetime.now().strftime("%Y-%m-%d %H:%M") at the time of the export
NowInputs == {"2024-03-01 09:30"}

\* the logged meals handed to get_meal_timing_insights, by time of day: the
\* app logs times as %H:%M; a dict may lack its time, and a time may be no
\* number at all
MorningEntries == <<[time |-> "05:00"], [time |-> "11:59"], [time |-> "08:15"]>>
AfternoonEntries ==
  <<[time |-> "12:00"], [time |-> "16:59"], [time |-> "13:30"], [time |-> "14:00"],
    [time |-> "15:45"], [meal_name |-> "Soup"]>>
EveningEntries ==
  <<[time |-> "17:00"], [time |-> "20:59"], [time |-> "00:00"], [time |-> "04:59"]>>
LateEntries == <<[time |-> "21:00"], [time |-> "23:59"], [time |-> "22:30"]>>
MalformedEntries == <<[time |-> "noon"], [time |-> ""]>>

\* count entries taken from a list of entries in turn
entries_of(entries, count) ==
  [k \in 1..count |-> entries[((k - 1) % Len(entries)) + 1]]

TimingLogInputs ==
  { entries_of(MorningEntries, c[1]) \o entries_of(AfternoonEntries, c[2])
    \o entries_of(EveningEntries, c[3]) \o entries_of(LateEntries, c[4])
    \o entries_of(MalformedEntries, c[5]) :
      c \in {v \in [1..5 -> 0..MaxTimingLogs] :
               v[1] + v[2] + v[3] + v[4] + v[5] <= MaxTimingLogs} }

\* what the profile form collects (app.py 143-173): age and height are ints,
\* weight a float
ProfileFormInputs ==
  { [name |-> "Ana", age |-> 25, weight |-> Q(141, 2), height |-> 170, gender |-> "Male",
     activity_level |-> "Sedentary (little/no exercise)", goal |-> "Maintain weight",
     dietary_restrictions |-> <<>>, allergies |-> ""],
    [name |-> "Ben", age |-> 40, weight |-> R(60), height |-> 164,
     gender |-> "Female", activity_level |-> "Very active (hard exercise 6-7 days/week)",
     goal |-> "Lose weight", dietary_restrictions |-> <<"Vegan", "Gluten-free">>,
     allergies |-> "peanuts, shellfish"] }

\* profile_data with daily_calories taken at the form's preselected activity
\* level instead of the submitted one
profile_data_of_default_activity(form) ==
  LET bmr == calculate_bmr(form.weight, form.height, form.age, form.gender)
      daily_calories ==
        calculate_daily_calories(bmr, "Lightly active (light exercise 1-3 days/week)")
  IN  [name |-> form.name, age |-> form.age, weight |-> form.weight,
       height |-> form.height, gender |-> form.gender,
       activity_level |-> form.activity_level, goal |-> form.goal,
       dietary_restrictions |-> form.dietary_restrictions,
       allergies |-> form.allergies, daily_calories |-> daily_calories, bmr |-> bmr]

\* profile_data as the form builds it on submit (app.py 178-194)
profile_data_of(form) ==
  LET bmr == calculate_bmr(form.weight, form.height, form.age, form.gender)
      daily_calories == calculate_daily_calories(bmr, form.activity_level)
  IN  [name |-> form.name, age |-> form.age, weight |-> form.weight,
       height |-> form.height, gender |-> form.gender,
       activity_level |-> form.activity_level, goal |-> form.goal,
       dietary_restrictions |-> form.dietary_restrictions,
       allergies |-> form.allergies, daily_calories |-> daily_calories, bmr |-> bmr]

\* a dict without some of its keys
without_keys(d, keys) == [k \in DOMAIN d \ keys |-> d[k]]

\* the dicts handed to save_user_profile: those of the form, and one that
\* lacks its name
ProfileDataInputs ==
  {profile_data_of(form) : form \in ProfileFormInputs}
  \cup {without_keys(profile_data_of(form), {"name"}) :
          form \in {f \in ProfileFormInputs : f.name = "Ana"}}

\* the dicts handed to log_meal: a catalog meal with int numbers (app.py
\* 250-259), a manual entry with floats (327-336), one that lacks a key and
\* one whose calories is None
MealDataInputs ==
  { [meal_name |-> "Mixed Nuts", meal_type |-> "Snack", calories |-> PyInt(160),
     protein |-> PyInt(6), carbs |-> PyInt(6), fat |-> PyInt(14),
     date |-> "2024-01-10", time |-> "08:30"],
    [meal_name |-> "Chicken, rice", meal_type |-> "Dinner", calories |-> PyFloat(R(650)),
     protein |-> PyFloat(Q(49, 4)), carbs |-> PyFloat(R(60)), fat |-> PyFloat(Q(51, 2)),
     date |-> "2024-01-12", time |-> "19:00"],
    [meal_name |-> "Toast", meal_type |-> "Breakfast", calories |-> PyInt(120),
     protein |-> PyInt(4), carbs |-> PyInt(20),
     date |-> "2024-01-12", time |-> "07:15"],
    [meal_name |-> "Water", meal_type |-> "Snack", calories |-> PyNone,
     protein |-> PyInt(0), carbs |-> PyInt(0), fat |-> PyInt(0),
     date |-> "2024-01-12", time |-> "10:00"] }

\* the amounts handed to log_water: the int of the number input, and None
WaterAmountInputs == {PyInt(250), PyNone}

\* the ratings handed to log_mood: around both ends of 1..10
MoodRatingInputs == {PyInt(0), PyInt(1), PyInt(10), PyInt(11)}

\* datetime.now().strftime("%Y-%m-%d %H:%M") at the time of a log
LoggedAtInputs == {"2024-01-12 21:00"}

\* the date of a query and the days handed to get_recent_meals
TodayInputs == {"2024-01-12"}
RecentDaysInputs == {1, 7}
TotalsDateInputs == {"2024-01-10", "2024-01-12"}

\* sqlite3.connect or execute raises in the call, or does not
FaultInputs == BOOLEAN

\* the number of CREATE TABLE statements that run in init_database before
\* sqlite3 raises; all of them when it does not
CreatedInputs == 0..4

\* the meal types chosen on the recommendations page
PageMealTypeInputs == {"Breakfast", "Snack"}

\* products of the food database: one with all it takes, one whose protein
\* is no number, one without energy, one whose energy is null
OatsProduct ==
  [product_name |-> "Rolled Oats", brands |-> "Acme", nutriscore_grade |-> "a",
   energy_kcal_100g |-> PyInt(379), proteins_100g |-> PyFloat(Q(132, 10)),
   carbohydrates_100g |-> PyStr("67"), fat_100g |-> PyFloat(Q(13, 2)),
   ingredients_text |-> "whole grain oats"]
RiceProduct ==
  [product_name |-> "Rice", energy_kcal_100g |-> PyFloat(R(130)),
   proteins_100g |-> PyStr("n/a")]
NoEnergyProduct == [product_name |-> "Mystery", proteins_100g |-> PyInt(3)]
NullEnergyProduct == [product_name |-> "Void", energy_kcal_100g |-> PyNone]

\* what a search request can come back with
SearchResponseInputs ==
  { [error |-> "request", data |-> [products |-> <<>>]],
    [error |-> "json", data |-> [products |-> <<>>]],
    [error |-> "none", data |-> [count |-> 0]],
    [error |-> "none", data |-> [products |-> <<>>]],
    [error |-> "none", data |-> [products |-> <<NoEnergyProduct, NullEnergyProduct>>]],
    [error |-> "none", data |-> [products |-> <<NoEnergyProduct, OatsProduct, RiceProduct>>]],
    [error |-> "none", data |-> [products |-> <<RiceProduct>>]] }

\* what a barcode request can come back with
BarcodeResponseInputs ==
  { [error |-> "request", data |-> [status |-> 0]],
    [error |-> "none", data |-> [status |-> 0]],
    [error |-> "none", data |-> [status |-> 1, product |-> NoEnergyProduct]],
    [error |-> "none", data |-> [status |-> 1, product |-> OatsProduct]],
    [error |-> "none", data |-> [status |-> 1, product |-> RiceProduct]] }

\* queries: too short, the same words in other case and spacing, digits
QueryInputs == {"", "a", " a ", "oats", " Oats ", "OATS", "rice", "737"}

\* barcodes: empty, not all digits, and two codes, one equal to a query
BarcodeInputs == {"", "73a", "737", "5001"}

(***************************************************************************)
(* The state machine.                                                      *)
(***************************************************************************)
NoCall == [op |-> "none"]

Init ==
  /\ meals_database = MealsDatabase
  /\ pc = "idle"
  /\ ret = NoCall
  /\ store = EmptyStore
  /\ session_state = [user_profile |-> None]
  /\ cache = <<>>

GetRecommendations ==
  /\ pc = "idle"
  /\ \E user_profile \in Profiles, meal_type \in MealTypeInputs,
        num_recommendations \in 0..MaxCount :
       LET refs == filtered_meals_of(meals_database, user_profile, meal_type)
       IN  \E rand \in [1..Len(refs) -> randint(0, 15)] :
             \E out \in {get_recommendations(meals_database, user_profile, meal_type,
                                             num_recommendations, rand)} :
               /\ meals_database' =
                    IF meal_type \in DOMAIN meals_database
                    THEN [meals_database EXCEPT ![meal_type] = out.meals]
                    ELSE meals_database
               /\ ret' = [op |-> "get_recommendations",
                          user_profile |-> user_profile,
                          meal_type |-> meal_type,
                          num_recommendations |-> num_recommendations,
                          rand |-> rand,
                          filtered_meals |-> refs,
                          scored_meals |-> out.scored_meals,
                          failed |-> out.failed,
                          raised |-> out.raised,
                          value |-> out.value]
               /\ pc' = "returned"
               /\ UNCHANGED <<store, session_state, cache>>

GetQuickMealIdeas ==
  /\ pc = "idle"
  /\ \E dietary_restrictions \in QuickRestrictionInputs :
       \E out \in {get_quick_meal_ideas(meals_database, dietary_restrictions)} :
         /\ meals_database' = out.database
         /\ ret' = [op |-> "get_quick_meal_ideas",
                    dietary_restrictions |-> dietary_restrictions,
                    value |-> out.value]
         /\ pc' = "returned"
         /\ UNCHANGED <<store, session_state, cache>>

AnalyzeNutritionPatterns ==
  /\ pc = "idle"
  /\ \E meal_logs \in MealLogInputs :
       /\ ret' = [op |-> "analyze_nutrition_patterns",
                  meal_logs |-> meal_logs,
                  value |-> analyze_nutrition_patterns(meal_logs)]
       /\ pc' = "returned"
       /\ UNCHANGED <<meals_database, store, session_state, cache>>

CalculateBmr ==
  /\ pc = "idle"
  /\ \E weight \in WeightInputs, height \in HeightInputs, age \in AgeInputs,
        gender \in GenderInputs :
       /\ ret' = [op |-> "calculate_bmr",
                  weight |-> weight, height |-> height, age |-> age,
                  gender |-> gender,
                  value |-> calculate_bmr(weight, height, age, gender)]
       /\ pc' = "returned"
       /\ UNCHANGED <<meals_database, store, session_state, cache>>

CalculateDailyCalories ==
  /\ pc = "idle"
  /\ \E bmr \in BmrInputs, activity_level \in ActivityLevelInputs :
       /\ ret' = [op |-> "calculate_daily_calories",
                  bmr |-> bmr, activity_level |-> activity_level,
                  value |-> calculate_daily_calories(bmr, activity_level)]
       /\ pc' = "returned"
       /\ UNCHANGED <<meals_database, store, session_state, cache>>

CalculateMacroPercentages ==
  /\ pc = "idle"
  /\ \E protein \in MacroGramInputs, carbs \in MacroGramInputs,
        fat \in MacroGramInputs :
       /\ ret' = [op |-> "calculate_macro_percentages",
                  protein |-> protein, carbs |-> carbs, fat |-> fat,
                  value |-> calculate_macro_percentages(protein, carbs, fat)]
       /\ pc' = "returned"
       /\ UNCHANGED <<meals_database, store, session_state, cache>>

FormatNutritionSummary ==
  /\ pc = "idle"
  /\ \E meal_logs \in SummaryLogInputs, days \in DaysInputs :
       /\ ret' = [op |-> "format_nutrition_summary",
                  meal_logs |-> meal_logs, days |-> days,
                  value |-> format_nutrition_summary(meal_logs, days)]
       /\ pc' = "returned"
       /\ UNCHANGED <<meals_database, store, session_state, cache>>

ExportProgressToCsv ==
  /\ pc = "idle"
  /\ \E db \in StoreInputs, range \in DateRangeInputs,
        export_type \in ExportTypeInputs, now \in NowInputs :
       \E out \in {export_progress_to_csv(db, range[1], range[2], export_type, now)} :
         /\ ret' = [op |-> "export_progress_to_csv",
                    db |-> db, start_date |-> range[1], end_date |-> range[2],
                    export_type |-> export_type, now |-> now,
                    rows |-> out.rows,
                    value |-> [is_none |-> out.is_none,
                               csv_content |-> out.csv_content]]
         /\ pc' = "returned"
         /\ UNCHANGED <<meals_database, store, session_state, cache>>

GetMealTimingInsights ==
  /\ pc = "idle"
  /\ \E meal_logs \in TimingLogInputs :
       \E out \in {get_meal_timing_insights(meal_logs)} :
         /\ ret' = [op |-> "get_meal_timing_insights",
                    meal_logs |-> meal_logs,
                    morning_meals |-> out.morning_meals,
                    afternoon_meals |-> out.afternoon_meals,
                    evening_meals |-> out.evening_meals,
                    value |-> out.value]
         /\ pc' = "returned"
         /\ UNCHANGED <<meals_database, store, session_state, cache>>

\* the caller has used the returned value
Return ==
  /\ pc = "returned"
  /\ pc' = "idle"
  /\ ret' = NoCall
  /\ UNCHANGED <<meals_database, store, session_state, cache>>

Next ==
  \/ GetRecommendations
  \/ GetQuickMealIdeas
  \/ AnalyzeNutritionPatterns
  \/ CalculateBmr
  \/ CalculateDailyCalories
  \/ CalculateMacroPercentages
  \/ FormatNutritionSummary
  \/ ExportProgressToCsv
  \/ GetMealTimingInsights
  \/ Return

Spec == Init /\ [][Next]_vars

(***************************************************************************)
(* The store: one action per method of DatabaseManager, each called while  *)
(* the caller is idle.  raised: an exception reached the caller.           *)
(***************************************************************************)
InitDatabase ==
  /\ pc = "idle"
  /\ \E created \in CreatedInputs :
       \E out \in {init_database(store, created)} :
         /\ store' = out.store
         /\ ret' = [op |-> "init_database", created |-> created,
                    raised |-> out.raised, value |-> out.value]
         /\ pc' = "returned"
         /\ UNCHANGED <<meals_database, session_state, cache>>

SaveUserProfile ==
  /\ pc = "idle"
  /\ \E profile_data \in ProfileDataInputs, fault \in FaultInputs :
       \E out \in {save_user_profile(store, profile_data, fault)} :
         /\ store' = out.store
         /\ ret' = [op |-> "save_user_profile", profile_data |-> profile_data,
                    fault |-> fault, raised |-> out.raised, value |-> out.value]
         /\ pc' = "returned"
         /\ UNCHANGED <<meals_database, session_state, cache>>

GetUserProfile ==
  /\ pc = "idle"
  /\ \E fault \in FaultInputs :
       \E out \in get_user_profile(store, fault) :
         /\ ret' = [op |-> "get_user_profile", fault |-> fault,
                    raised |-> FALSE, value |-> out]
         /\ pc' = "returned"
         /\ UNCHANGED <<meals_database, store, session_state, cache>>

LogMeal ==
  /\ pc = "idle"
  /\ Len(store.meal_logs) < MaxRows
  /\ \E meal_data \in MealDataInputs, fault \in FaultInputs :
       \E out \in {log_meal(store, meal_data, fault)} :
         /\ store' = out.store
         /\ ret' = [op |-> "log_meal", meal_data |-> meal_data,
                    fault |-> fault, raised |-> out.raised, value |-> out.value]
         /\ pc' = "returned"
         /\ UNCHANGED <<meals_database, session_state, cache>>

LogWater ==
  /\ pc = "idle"
  /\ Len(store.water_logs) < MaxRows
  /\ \E amount \in WaterAmountInputs, logged_at \in LoggedAtInputs, fault \in FaultInputs :
       \E out \in {log_water(store, amount, logged_at, fault)} :
         /\ store' = out.store
         /\ ret' = [op |-> "log_water", amount |-> amount, logged_at |-> logged_at,
                    fault |-> fault, raised |-> out.raised, value |-> out.value]
         /\ pc' = "returned"
         /\ UNCHANGED <<meals_database, session_state, cache>>

LogMood ==
  /\ pc = "idle"
  /\ Len(store.mood_logs) < MaxRows
  /\ \E rating \in MoodRatingInputs, notes \in {"slept well"},
        logged_at \in LoggedAtInputs, fault \in FaultInputs :
       \E out \in {log_mood(store, rating, notes, logged_at, fault)} :
         /\ store' = out.store
         /\ ret' = [op |-> "log_mood", rating |-> rating, notes |-> notes,
                    logged_at |-> logged_at, fault |-> fault,
                    raised |-> out.raised, value |-> out.value]
         /\ pc' = "returned"
         /\ UNCHANGED <<meals_database, session_state, cache>>

GetRecentMeals ==
  /\ pc = "idle"
  /\ \E days \in RecentDaysInputs, today \in TodayInputs, fault \in FaultInputs :
       /\ ret' = [op |-> "get_recent_meals", days |-> days, today |-> today,
                  fault |-> fault, raised |-> FALSE,
                  value |-> get_recent_meals(store, days, today, fault)]
       /\ pc' = "returned"
       /\ UNCHANGED <<meals_database, store, session_state, cache>>

GetDailyNutritionTotals ==
  /\ pc = "idle"
  /\ \E date \in TotalsDateInputs, fault \in FaultInputs :
       /\ ret' = [op |-> "get_daily_nutrition_totals", date |-> date,
                  fault |-> fault, raised |-> FALSE,
                  value |-> get_daily_nutrition_totals(store, date, fault)]
       /\ pc' = "returned"
       /\ UNCHANGED <<meals_database, store, session_state, cache>>

GetProgressData ==
  /\ pc = "idle"
  /\ \E range \in DateRangeInputs, fault \in FaultInputs :
       /\ ret' = [op |-> "get_progress_data", start_date |-> range[1],
                  end_date |-> range[2], fault |-> fault, raised |-> FALSE,
                  value |-> range_query(store, "meal_logs", fault,
                                        get_progress_data(store, range[1], range[2]))]
       /\ pc' = "returned"
       /\ UNCHANGED <<meals_database, store, session_state, cache>>

GetWaterLogs ==
  /\ pc = "idle"
  /\ \E range \in DateRangeInputs, fault \in FaultInputs :
       /\ ret' = [op |-> "get_water_logs", start_date |-> range[1],
                  end_date |-> range[2], fault |-> fault, raised |-> FALSE,
                  value |-> range_query(store, "water_logs", fault,
                                        get_water_logs(store, range[1], range[2]))]
       /\ pc' = "returned"
       /\ UNCHANGED <<meals_database, store, session_state, cache>>

GetMoodLogs ==
  /\ pc = "idle"
  /\ \E range \in DateRangeInputs, fault \in FaultInputs :
       /\ ret' = [op |-> "get_mood_logs", start_date |-> range[1],
                  end_date |-> range[2], fault |-> fault, raised |-> FALSE,
                  value |-> range_query(store, "mood_logs", fault,
                                        get_mood_logs(store, range[1], range[2]))]
       /\ pc' = "returned"
       /\ UNCHANGED <<meals_database, store, session_state, cache>>

StoreNext ==
  \/ InitDatabase
  \/ SaveUserProfile
  \/ GetUserProfile
  \/ LogMeal
  \/ LogWater
  \/ LogMood
  \/ GetRecentMeals
  \/ GetDailyNutritionTotals
  \/ GetProgressData
  \/ GetWaterLogs
  \/ GetMoodLogs
  \/ Return

StoreSpec == Init /\ [][StoreNext]_vars

(***************************************************************************)
(* The pages of the app that set and use the session's profile (app.py).   *)
(* session_state.user_profile is None until the profile form is submitted. *)
(***************************************************************************)
\* the guard taken as passed whatever the session holds
profile_is_set_always(profile) == TRUE

\* `not st.session_state.user_profile` is False (app.py 221)
profile_is_set(profile) == profile # None

\* the call at app.py 230-232; on None the recommender's own try/except
\* catches the AttributeError of None.get and returns []
page_recommendations(database, profile, meal_type, rand) ==
  IF profile = None
  THEN [failed |-> TRUE, raised |-> FALSE, value |-> <<>>,
        meals |-> dict_get(database, meal_type, <<>>), scored_meals |-> <<>>]
  ELSE get_recommendations(database, profile, meal_type, 3, rand)

\* a browser session starts: lines 69-76 build its state anew
NewSession ==
  /\ pc = "idle"
  /\ session_state' = [user_profile |-> None]
  /\ meals_database' = MealsDatabase
  /\ cache' = <<>>
  /\ UNCHANGED <<pc, ret, store>>

\* the profile form is submitted (app.py 175-201): the profile is computed,
\* saved, whatever save_user_profile returns, and kept in the session
ShowUserProfile ==
  /\ pc = "idle"
  /\ \E form \in ProfileFormInputs, fault \in FaultInputs :
       \E profile_data \in {profile_data_of(form)} :
         \E out \in {save_user_profile(store, profile_data, fault)} :
           /\ store' = out.store
           /\ session_state' = [session_state EXCEPT !.user_profile = profile_data]
           /\ ret' = [op |-> "show_user_profile", form |-> form, fault |-> fault,
                      profile_data |-> profile_data, saved |-> out.value,
                      raised |-> out.raised]
           /\ pc' = "returned"
           /\ UNCHANGED <<meals_database, cache>>

\* the recommendations page is opened and, when it shows its button, the
\* button is pressed (app.py 218-275)
ShowMealRecommendations ==
  /\ pc = "idle"
  /\ IF ~profile_is_set(session_state.user_profile)
     THEN /\ ret' = [op |-> "show_meal_recommendations",
                     user_profile |-> session_state.user_profile,
                     warning |-> TRUE, called_recommender |-> FALSE,
                     raised |-> FALSE, value |-> <<>>]
          /\ UNCHANGED meals_database
     ELSE \E meal_type \in PageMealTypeInputs, r \in randint(0, 15) :
            LET profile == session_state.user_profile
                partition == dict_get(meals_database, meal_type, <<>>)
            IN  \E out \in {page_recommendations(meals_database, profile, meal_type,
                                                 [i \in 1..Len(partition) |-> r])} :
                  /\ meals_database' = [meals_database EXCEPT ![meal_type] = out.meals]
                  /\ ret' = [op |-> "show_meal_recommendations",
                             user_profile |-> profile,
                             warning |-> FALSE, called_recommender |-> TRUE,
                             raised |-> out.raised, value |-> out.value]
  /\ pc' = "returned"
  /\ UNCHANGED <<store, session_state, cache>>

AppNext ==
  \/ NewSession
  \/ InitDatabase
  \/ ShowUserProfile
  \/ ShowMealRecommendations
  \/ Return

AppSpec == Init /\ [][AppNext]_vars

(***************************************************************************)
(* The lookup client: one action per method of OpenFoodFactsAPI.           *)
(***************************************************************************)
SearchFood ==
  /\ pc = "idle"
  /\ \E query \in QueryInputs, response \in SearchResponseInputs :
       \E out \in {search_food(cache, query, response)} :
         /\ cache' = out.cache
         /\ ret' = [op |-> "search_food", query |-> query,
                    response |-> IF out.requested THEN response ELSE None,
                    requested |-> out.requested, value |-> out.value]
         /\ pc' = "returned"
         /\ UNCHANGED <<meals_database, store, session_state>>

GetProductByBarcode ==
  /\ pc = "idle"
  /\ \E barcode \in BarcodeInputs, response \in BarcodeResponseInputs :
       \E out \in {get_product_by_barcode(cache, barcode, response)} :
         /\ cache' = out.cache
         /\ ret' = [op |-> "get_product_by_barcode", barcode |-> barcode,
                    response |-> IF out.requested THEN response ELSE None,
                    requested |-> out.requested, value |-> out.value]
         /\ pc' = "returned"
         /\ UNCHANGED <<meals_database, store, session_state>>

ClearCache ==
  /\ pc = "idle"
  /\ cache' = <<>>
  /\ ret' = [op |-> "clear_cache", value |-> None]
  /\ pc' = "returned"
  /\ UNCHANGED <<meals_database, store, session_state>>

ApiNext ==
  \/ SearchFood
  \/ GetProductByBarcode
  \/ ClearCache
  \/ Return

ApiSpec == Init /\ [][ApiNext]_vars

(***************************************************************************)
(* Properties.                                                             *)
(***************************************************************************)
Returned(op) == pc = "returned" /\ ret.op = op

\* the catalog partition a call selected, as constructed
PartitionOf(meal_type) == dict_get(MealsDatabase, meal_type, <<>>)

RestrictionsOf(user_profile) == dict_get(user_profile, "dietary_restrictions", <<>>)

DailyCaloriesOf(user_profile) == dict_get(user_profile, "daily_calories", R(2000))

\* the entry's dietary_tags include every requested restriction, case-insensitively
CarriesAll(meal, restrictions) ==
  {lower(restrictions[i]) : i \in 1..Len(restrictions)}
    \subseteq {lower(meal.dietary_tags[i]) : i \in 1..Len(meal.dietary_tags)}

SomeEntryCarriesAll(meal_type, restrictions) ==
  \E i \in 1..Len(PartitionOf(meal_type)) :
    CarriesAll(PartitionOf(meal_type)[i], restrictions)

\* the catalog entry a returned dict was copied from
IsCopyOf(result, entry) == \A k \in DOMAIN entry : k \in DOMAIN result /\ result[k] = entry[k]

Min(a, b) == IF a < b THEN a ELSE b

FellBackToPartition ==
  /\ ret.value # <<>>
  /\ ret.filtered_meals = [i \in 1..Len(PartitionOf(ret.meal_type)) |-> i]
  /\ Len(ret.scored_meals) = Len(PartitionOf(ret.meal_type))
  /\ \A j \in 1..Len(ret.value) :
       \E i \in 1..Len(PartitionOf(ret.meal_type)) :
         IsCopyOf(ret.value[j], PartitionOf(ret.meal_type)[i])

C3_ReturnedEntriesCarryRestrictions ==
  (/\ Returned("get_recommendations")
   /\ SomeEntryCarriesAll(ret.meal_type, RestrictionsOf(ret.user_profile)))
  => \A j \in 1..Len(ret.value) :
       CarriesAll(ret.value[j], RestrictionsOf(ret.user_profile))

C3_Witness ==
  /\ Returned("get_recommendations")
  /\ RestrictionsOf(ret.user_profile) = <<"VEGAN">>
  /\ ret.meal_type = "Lunch"
  /\ Len(ret.value) = 2
  /\ \E i \in 1..Len(PartitionOf("Lunch")) :
       ~CarriesAll(PartitionOf("Lunch")[i], <<"VEGAN">>)

\* the number of scored candidates that a stable descending sort puts ahead of
\* the i-th: those with a higher score, and those with the same score that
\* come earlier
AheadOf(scored, i) ==
  Cardinality({j \in 1..Len(scored) :
                 \/ QLt(scored[i].ai_score, scored[j].ai_score)
                 \/ scored[j].ai_score = scored[i].ai_score /\ j < i})

C5_FailureReturnsEmpty ==
  Returned("get_recommendations") =>
    /\ ~ret.raised
    /\ ret.failed => ret.value = <<>>

C5_Witness ==
  /\ Returned("get_recommendations")
  /\ ret.failed
  /\ DailyCaloriesOf(ret.user_profile)[1] = 0

(***************************************************************************)
(* The score as the design describes it, without the variety term.         *)
(***************************************************************************)
DesignTarget(user_profile, meal_type) ==
  QMul(DailyCaloriesOf(user_profile),
       CASE meal_type = "Breakfast" -> Q(25, 100)
         [] meal_type = "Lunch" -> Q(35, 100)
         [] meal_type = "Dinner" -> Q(35, 100)
         [] meal_type = "Snack" -> Q(5, 100))

\* max(0, 100 - |calories - target| / target * 100) * 0.3
DesignCalorieAlignment(meal, target) ==
  QMul(QMax(R(0),
            QSub(R(100), QMul(QDiv(QAbs(QSub(R(meal.calories), target)), target), R(100)))),
       Q(3, 10))

DesignGoalTerm(meal, user_profile, target) ==
  LET goal == lower(dict_get(user_profile, "goal", ""))
  IN  CASE str_in("lose weight", goal) ->
             (IF QLt(R(meal.calories), target) THEN 20 ELSE 0)
             + (IF meal.protein > 15 THEN 15 ELSE 0)
        [] ~str_in("lose weight", goal)
           /\ (str_in("gain weight", goal) \/ str_in("build muscle", goal)) ->
             (IF QLt(QMul(Q(9, 10), target), R(meal.calories)) THEN 20 ELSE 0)
             + (IF meal.protein > 20 THEN 20 ELSE 0)
        [] OTHER ->
             IF /\ str_in("maintain", goal)
                /\ QLe(Q(15, 100), Q(meal.protein * 4, meal.calories))
                /\ QLe(Q(meal.protein * 4, meal.calories), Q(35, 100))
             THEN 15 ELSE 0

DesignPrepTerm(meal) ==
  IF meal.preparation_time <= 10 THEN 10
  ELSE IF meal.preparation_time <= 20 THEN 5 ELSE 0

DesignMacroTerm(meal) ==
  LET grams == meal.protein + meal.carbs + meal.fat
  IN  IF /\ 100 * meal.protein >= 15 * grams /\ 10 * meal.protein <= 4 * grams
         /\ 10 * meal.fat >= 2 * grams /\ 10 * meal.fat <= 4 * grams
      THEN 10 ELSE 0

DesignScore(meal, user_profile, meal_type) ==
  LET target == DesignTarget(user_profile, meal_type)
  IN  QAdd(DesignCalorieAlignment(meal, target),
           R(DesignGoalTerm(meal, user_profile, target)
             + 2 * Len(meal.health_benefits)
             + DesignPrepTerm(meal)
             + DesignMacroTerm(meal)))

\* C6: for a profile with positive daily_calories, each candidate's score less
\* its variety draw (an integer in 0..15) is the sum of the calorie-alignment,
\* goal, health-benefit, prep-time and macro-balance terms of the design.
C6_ScoreIsSumOfTerms ==
  (/\ Returned("get_recommendations")
   /\ DailyCaloriesOf(ret.user_profile)[1] > 0)
  => /\ Len(ret.scored_meals) = Len(ret.filtered_meals)
     /\ \A i \in 1..Len(ret.scored_meals) :
          /\ ret.rand[i] \in 0..15
          /\ QSub(ret.scored_meals[i].ai_score, R(ret.rand[i]))
               = DesignScore(PartitionOf(ret.meal_type)[ret.filtered_meals[i]],
                             ret.user_profile, ret.meal_type)

\* a lunch scored for a "maintain" goal: entries with preparation times of 10
\* and 20 minutes, the first drawing the largest variety term
C6_Witness ==
  /\ Returned("get_recommendations")
  /\ ret.meal_type = "Lunch"
  /\ dict_get(ret.user_profile, "goal", "") = "Maintain weight"
  /\ DailyCaloriesOf(ret.user_profile)[1] > 0
  /\ Len(ret.scored_meals) = 4
  /\ ret.rand[1] = 15

\* C7: get_quick_meal_ideas returns at most 6 entries, none with a
\* preparation_time above 15, in non-decreasing order of preparation_time.
C7_QuickMealsBoundedAndSorted ==
  Returned("get_quick_meal_ideas") =>
    /\ Len(ret.value) <= 6
    /\ \A j \in 1..Len(ret.value) : ret.value[j].preparation_time <= 15
    /\ \A i, j \in 1..Len(ret.value) :
         i < j => ret.value[i].preparation_time <= ret.value[j].preparation_time

\* the entries of the catalog that take at most 15 minutes
QuickCatalogEntries ==
  {m \in UNION {{MealsDatabase[t][i] : i \in 1..Len(MealsDatabase[t])} :
                  t \in DOMAIN MealsDatabase} : m.preparation_time <= 15}

\* more quick entries fit the filter than are returned
C7_Witness ==
  /\ Returned("get_quick_meal_ideas")
  /\ Len(ret.value) = 6
  /\ Cardinality({m \in QuickCatalogEntries : CarriesAll(m, ret.dietary_restrictions)}) > 6
  /\ ret.value[1].preparation_time < ret.value[6].preparation_time

\* C8: every entry get_quick_meal_ideas returns carries every requested
\* restriction (case-insensitively), and the result is empty when no quick
\* entry of the catalog carries them all.
C8_QuickFilterWithoutFallback ==
  Returned("get_quick_meal_ideas") =>
    /\ \A j \in 1..Len(ret.value) : CarriesAll(ret.value[j], ret.dietary_restrictions)
    /\ (\A m \in QuickCatalogEntries : ~CarriesAll(m, ret.dietary_restrictions))
         => ret.value = <<>>

C8_Witness ==
  /\ Returned("get_quick_meal_ideas")
  /\ ret.dietary_restrictions = <<"Keto", "Dairy-free">>
  /\ ret.value = <<>>

\* C9: the catalog always equals the catalog built at construction; no entry
\* has an ai_score or a meal_type field.
C9_CatalogImmutable ==
  /\ meals_database = MealsDatabase
  /\ \A t \in DOMAIN meals_database : \A i \in 1..Len(meals_database[t]) :
       /\ "ai_score" \notin DOMAIN meals_database[t][i]
       /\ "meal_type" \notin DOMAIN meals_database[t][i]

\* a call has returned copies that carry the added field
C9_Witness ==
  /\ pc = "returned"
  /\ ret.op \in {"get_recommendations", "get_quick_meal_ideas"}
  /\ ret.value # <<>>
  /\ \/ "ai_score" \in DOMAIN ret.value[1]
     \/ "meal_type" \in DOMAIN ret.value[1]
  /\ meals_database = MealsDatabase

\* C10: analyze_nutrition_patterns returns the error result, without averages,
\* for an empty list, and the low-protein insight for a non-empty list whose
\* average protein is 10 g.
C10_EmptySentinelAndLowProtein ==
  Returned("analyze_nutrition_patterns") =>
    /\ ret.meal_logs = <<>> =>
         /\ "error" \in DOMAIN ret.value
         /\ "avg_protein" \notin DOMAIN ret.value
         /\ "insights" \notin DOMAIN ret.value
    /\ (ret.meal_logs # <<>>
        /\ sum_of(ret.meal_logs, "protein") = 10 * Len(ret.meal_logs)) =>
         /\ "error" \notin DOMAIN ret.value
         /\ list_in(LowProteinInsight, ret.value.insights)

\* two logged meals, one without a protein field, averaging 10 g
C10_Witness ==
  /\ Returned("analyze_nutrition_patterns")
  /\ Len(ret.meal_logs) = 2
  /\ "protein" \notin DOMAIN ret.meal_logs[1]
  /\ sum_of(ret.meal_logs, "protein") = 20

\* the entries of meal_logs whose meal_type is Breakfast
BreakfastEntries(meal_logs) ==
  {i \in 1..Len(meal_logs) :
     "meal_type" \in DOMAIN meal_logs[i] /\ meal_logs[i].meal_type = "Breakfast"}

\* C11: for a non-empty list analyze_nutrition_patterns returns at most three
\* insights, each at most once: the low-protein one exactly when the average
\* protein is below 15, the low-calorie one exactly when the average calories
\* are below 1200, the high-calorie one exactly when they exceed 2500 (never
\* both), and the breakfast one exactly when the Breakfast entries are fewer
\* than 20% of all entries.
C11_InsightsExactlyWhenConditionsHold ==
  (Returned("analyze_nutrition_patterns") /\ ret.meal_logs # <<>>) =>
    LET n == Len(ret.meal_logs)
        protein == sum_of(ret.meal_logs, "protein")
        calories == sum_of(ret.meal_logs, "calories")
        breakfasts == Cardinality(BreakfastEntries(ret.meal_logs))
        insights == ret.value.insights
    IN  /\ Len(insights) \in 0..3
        /\ \A i, j \in 1..Len(insights) : insights[i] = insights[j] => i = j
        /\ \A i \in 1..Len(insights) :
             insights[i] \in {LowProteinInsight, LowCalorieInsight,
                              HighCalorieInsight, BreakfastInsight}
        /\ list_in(LowProteinInsight, insights) <=> protein < 15 * n
        /\ list_in(LowCalorieInsight, insights) <=> calories < 1200 * n
        /\ list_in(HighCalorieInsight, insights) <=> calories > 2500 * n
        /\ ~(list_in(LowCalorieInsight, insights) /\ list_in(HighCalorieInsight, insights))
        /\ list_in(BreakfastInsight, insights) <=> 5 * breakfasts < n

\* five logged meals of which exactly one (20%) is a Breakfast, with averages
\* inside every range: no insight at all
C11_Witness ==
  /\ Returned("analyze_nutrition_patterns")
  /\ Len(ret.meal_logs) = 5
  /\ Cardinality(BreakfastEntries(ret.meal_logs)) = 1
  /\ ret.value.insights = <<>>

DesignMultiplier(activity_level) ==
  CASE activity_level = "Sedentary (little/no exercise)" -> Q(12, 10)
    [] activity_level = "Lightly active (light exercise 1-3 days/week)" -> Q(1375, 1000)
    [] activity_level = "Moderately active (moderate exercise 3-5 days/week)" -> Q(155, 100)
    [] activity_level = "Very active (hard exercise 6-7 days/week)" -> Q(1725, 1000)
    [] activity_level = "Extremely active (very hard exercise, physical job)" -> Q(19, 10)
    [] OTHER -> Q(12, 10)

\* C13: calculate_daily_calories returns bmr times the multiplier of the
\* activity level for each of the five levels, and bmr times 1.2 for every
\* level that is not one of them.
C13_DailyCaloriesByTable ==
  Returned("calculate_daily_calories") =>
    ret.value = QMul(ret.bmr, DesignMultiplier(ret.activity_level))

\* a level that is not a key of the table, with a positive bmr
C13_Witness ==
  /\ Returned("calculate_daily_calories")
  /\ ret.activity_level = "sedentary (little/no exercise)"
  /\ QLt(R(0), ret.bmr)
  /\ ret.value = QMul(ret.bmr, Q(12, 10))

\* C14 as stated: weight 70, height 170, age 25, male gives a BMR of 1667.5,
\* and that BMR with activity "Sedentary" gives 2001.0 daily calories.
C14_ExampleValuesAsStated ==
  /\ (Returned("calculate_bmr")
      /\ ret.weight = R(70) /\ ret.height = 170 /\ ret.age = 25
      /\ ret.gender = "male") =>
       ret.value = Q(16675, 10)
  /\ (Returned("calculate_daily_calories")
      /\ ret.bmr = calculate_bmr(R(70), 170, 25, "male")
      /\ ret.activity_level = "Sedentary") =>
       ret.value = R(2001)

\* C14: weight 70, height 170, age 25, male gives a BMR of 1642.5, and that
\* BMR with activity "Sedentary" gives 1971.0 daily calories.
C14_ExampleValues ==
  /\ (Returned("calculate_bmr")
      /\ ret.weight = R(70) /\ ret.height = 170 /\ ret.age = 25
      /\ ret.gender = "male") =>
       ret.value = Q(16425, 10)
  /\ (Returned("calculate_daily_calories")
      /\ ret.bmr = calculate_bmr(R(70), 170, 25, "male")
      /\ ret.activity_level = "Sedentary") =>
       ret.value = R(1971)

\* the daily calories of the example's BMR have been computed
C14_Witness ==
  /\ Returned("calculate_daily_calories")
  /\ ret.bmr = Q(16425, 10)
  /\ ret.activity_level = "Sedentary"

\* the sum of the three percentages of a calculate_macro_percentages result
PercentageSum(percentages) ==
  QAdd(QAdd(percentages.protein, percentages.carbs), percentages.fat)

Nutrients == {"calories", "protein", "carbs", "fat"}

\* the counts of a meal_distribution add up to n
RECURSIVE CountsTotal(_, _)
CountsTotal(counts, keys) ==
  IF keys = {} THEN 0
  ELSE LET k == CHOOSE x \in keys : TRUE
       IN  counts[k] + CountsTotal(counts, keys \ {k})

\* v is x rounded to one decimal: a multiple of 1/10 at most 1/20 away from x
IsRoundedToTenth(v, x) ==
  /\ v[2] \in {1, 2, 5, 10}
  /\ QLe(QAbs(QSub(v, x)), Q(1, 20))

\* what every summary of a non-empty list carries besides totals and averages
SummaryCountsAndPercentages ==
  /\ "error" \notin DOMAIN ret.value
  /\ CountsTotal(ret.value.meal_distribution, DOMAIN ret.value.meal_distribution)
       = Len(ret.meal_logs)
  /\ ret.value.macro_percentages =
       calculate_macro_percentages(nutrient_total(ret.meal_logs, "protein"),
                                   nutrient_total(ret.meal_logs, "carbs"),
                                   nutrient_total(ret.meal_logs, "fat"))

\* C16 as stated: the error result for an empty list; otherwise totals equal
\* to the sum of each nutrient, daily averages equal to total/days (0 when
\* days <= 0), meal-type counts that add up to the number of entries, and the
\* macro percentages of the totals.
C16_SummaryAsStated ==
  Returned("format_nutrition_summary") =>
    IF ret.meal_logs = <<>>
    THEN ret.value = [error |-> "No meal data available"]
    ELSE /\ SummaryCountsAndPercentages
         /\ \A k \in Nutrients :
              /\ ret.value.totals[k] = nutrient_total(ret.meal_logs, k)
              /\ ret.value.daily_averages[k] =
                   IF ret.days > 0
                   THEN QDiv(nutrient_total(ret.meal_logs, k), R(ret.days))
                   ELSE R(0)

\* C16: the error result for an empty list; otherwise totals equal to the sum
\* of each nutrient rounded to one decimal, daily averages equal to total/days
\* rounded to one decimal (0 when days <= 0), meal-type counts that add up to
\* the number of entries, and the macro percentages of the unrounded totals.
C16_SummaryRounded ==
  Returned("format_nutrition_summary") =>
    IF ret.meal_logs = <<>>
    THEN ret.value = [error |-> "No meal data available"]
    ELSE /\ SummaryCountsAndPercentages
         /\ \A k \in Nutrients :
              /\ IsRoundedToTenth(ret.value.totals[k], nutrient_total(ret.meal_logs, k))
              /\ IF ret.days > 0
                 THEN IsRoundedToTenth(ret.value.daily_averages[k],
                                       QDiv(nutrient_total(ret.meal_logs, k), R(ret.days)))
                 ELSE ret.value.daily_averages[k] = R(0)

\* a breakfast of 300 kcal and an entry without a meal_type over 7 days: the
\* average 400/7 is reported as 57.1
C16_Witness ==
  /\ Returned("format_nutrition_summary")
  /\ Len(ret.meal_logs) = 2
  /\ ret.days = 7
  /\ "meal_type" \notin DOMAIN ret.meal_logs[2]
  /\ ret.value.daily_averages.calories = Q(571, 10)
  /\ ret.value.meal_distribution = [Breakfast |-> 1, Unknown |-> 1]

\* the records of each kind the store returns for the range of the export
MealsInRange == get_progress_data(ret.db, ret.start_date, ret.end_date)
WaterInRange == get_water_logs(ret.db, ret.start_date, ret.end_date)
MoodInRange == get_mood_logs(ret.db, ret.start_date, ret.end_date)

\* no requested section of the export has a row
NoRequestedRows ==
  CASE ret.export_type = "All Data" ->
         MealsInRange = <<>> /\ WaterInRange = <<>> /\ MoodInRange = <<>>
    [] ret.export_type = "Meal Logs Only" -> MealsInRange = <<>>
    [] ret.export_type = "Water Intake Only" -> WaterInRange = <<>>
    [] ret.export_type = "Mood Logs Only" -> MoodInRange = <<>>
    [] OTHER -> FALSE

\* C17 as stated: for each of the four export types export_progress_to_csv
\* returns None when the date range has no row in any requested section.
C17_NoRowsGivesNone ==
  (Returned("export_progress_to_csv") /\ NoRequestedRows) => ret.value.is_none

\* an export of meal logs only over a range without meals has returned
C17_Witness ==
  /\ Returned("export_progress_to_csv")
  /\ ret.export_type = "Meal Logs Only"
  /\ NoRequestedRows
  /\ ret.value.csv_content = csv_text(<<MealHeader>>)

\* the rows of a document that are not empty rows
WrittenRows(rows) == rows_where(rows, {i \in 1..Len(rows) : rows[i] # <<>>}, 1)

\* a section of the full export: nothing for a kind without rows, else its
\* marker, its header row and its data rows
Section(marker, header, data_rows) ==
  IF data_rows = <<>> THEN <<>> ELSE <<marker, header>> \o data_rows

\* C18: an "All Data" export holds the metadata block, then, in the order
\* meals, water, mood, a section (marker, header row, one row per record) for
\* each kind with at least one row in the range and nothing for the others;
\* with one meal and no water or mood row the text has a "MEAL LOGS" section
\* of one data row and neither "WATER" nor "MOOD".
C18_AllDataSections ==
  (Returned("export_progress_to_csv") /\ ret.export_type = "All Data") =>
    /\ ~ret.value.is_none
    /\ ret.value.csv_content = csv_text(ret.rows)
    /\ WrittenRows(ret.rows) =
         << <<"Export Date", ret.now>>,
            <<"Data Period", ret.start_date \o " to " \o ret.end_date>> >>
         \o Section(<<"=== MEAL LOGS ===">>, MealHeader, meal_rows(MealsInRange))
         \o Section(<<"=== WATER INTAKE LOGS ===">>, WaterHeader, water_rows(WaterInRange))
         \o Section(<<"=== MOOD LOGS ===">>, MoodHeader, mood_rows(MoodInRange))
    /\ (Len(MealsInRange) = 1 /\ WaterInRange = <<>> /\ MoodInRange = <<>>) =>
         /\ str_in("MEAL LOGS", ret.value.csv_content)
         /\ ~str_in("WATER", ret.value.csv_content)
         /\ ~str_in("MOOD", ret.value.csv_content)
         /\ Len(WrittenRows(ret.rows)) = 5

\* the example: one meal of two lies in the range, the store has no water
\* and no mood log
C18_Witness ==
  /\ Returned("export_progress_to_csv")
  /\ ret.export_type = "All Data"
  /\ Len(ret.db.meal_logs) = 2
  /\ Len(MealsInRange) = 1 /\ WaterInRange = <<>> /\ MoodInRange = <<>>
  /\ str_in("=== MEAL LOGS ===", ret.value.csv_content)

\* C19: a "Meal Logs Only", "Water Intake Only" or "Mood Logs Only" export is
\* the header row of its kind followed by one row per record of that kind in
\* the range, in the order the store returns them, with no metadata block and
\* no section marker.
C19_SingleKindHeaderAndRows ==
  (Returned("export_progress_to_csv")
   /\ ret.export_type \in {"Meal Logs Only", "Water Intake Only", "Mood Logs Only"}) =>
    /\ ~ret.value.is_none
    /\ ret.value.csv_content = csv_text(ret.rows)
    /\ ret.rows =
         CASE ret.export_type = "Meal Logs Only" ->
                <<MealHeader>> \o meal_rows(MealsInRange)
           [] ret.export_type = "Water Intake Only" ->
                <<WaterHeader>> \o water_rows(WaterInRange)
           [] ret.export_type = "Mood Logs Only" ->
                <<MoodHeader>> \o mood_rows(MoodInRange)
    /\ ~str_in("===", ret.value.csv_content)
    /\ ~str_in("Export Date", ret.value.csv_content)
    /\ ~str_in("Data Period", ret.value.csv_content)

\* a mood export of two records, stored newest first and returned oldest first
C19_Witness ==
  /\ Returned("export_progress_to_csv")
  /\ ret.export_type = "Mood Logs Only"
  /\ Len(MoodInRange) = 2
  /\ ret.rows[2][1] = "2024-01-12 07:45"
  /\ ret.rows[3][1] = "2024-01-12 21:00"

\* the hour of the i-th logged meal, when its time has one
HasHour(i) == "time" \in DOMAIN ret.meal_logs[i] /\ ~hour_of(ret.meal_logs[i]).raised
HourOf(i) == hour_of(ret.meal_logs[i]).hour

\* the logged meals whose hour lies in hours
MealsAtHours(hours) == {i \in 1..Len(ret.meal_logs) : HourOf(i) \in hours}

\* C20: for logged meals that all have an hour, get_meal_timing_insights puts
\* each in exactly one bucket, morning for the hours 5..11, afternoon for
\* 12..16, evening for 17..23 and 0..4, and returns the skip-morning insight
\* exactly when fewer than 20% are morning meals, the evening insight exactly
\* when more than 50% are evening meals, the midday insight exactly when more
\* than 60% are afternoon meals, and the late-meal insight exactly when more
\* than 30% are at 21:00-23:59.
C20_BucketsAndTimingInsights ==
  (Returned("get_meal_timing_insights")
   /\ ret.meal_logs # <<>>
   /\ \A i \in 1..Len(ret.meal_logs) : HasHour(i)) =>
    LET n == Len(ret.meal_logs)
        morning == Cardinality(MealsAtHours(5..11))
        afternoon == Cardinality(MealsAtHours(12..16))
        evening == Cardinality(MealsAtHours((17..23) \cup (0..4)))
        late == Cardinality(MealsAtHours(21..23))
    IN  /\ \A i \in 1..n :
             /\ list_in(i, ret.morning_meals) <=> HourOf(i) \in 5..11
             /\ list_in(i, ret.afternoon_meals) <=> HourOf(i) \in 12..16
             /\ list_in(i, ret.evening_meals) <=> HourOf(i) \in (17..23) \cup (0..4)
        /\ Len(ret.morning_meals) + Len(ret.afternoon_meals) + Len(ret.evening_meals) = n
        /\ list_in(SkipMorningInsight, ret.value) <=> 5 * morning < n
        /\ list_in(EveningInsight, ret.value) <=> 2 * evening > n
        /\ list_in(MiddayInsight, ret.value) <=> 5 * afternoon > 3 * n
        /\ list_in(LateInsight, ret.value) <=> 10 * late > 3 * n

\* ten meals: two in the morning (20%), five in the afternoon (50%), three
\* at 21:00 or later (30%); every fraction is at its threshold, none beyond
C20_Witness ==
  /\ Returned("get_meal_timing_insights")
  /\ Len(ret.meal_logs) = 10
  /\ \A i \in 1..10 : HasHour(i)
  /\ Cardinality(MealsAtHours(5..11)) = 2
  /\ Cardinality(MealsAtHours(12..16)) = 5
  /\ Cardinality(MealsAtHours(21..23)) = 3
  /\ ret.value = <<BalancedInsight>>

\* the logged meals whose time string is not a number before its colon
IsMalformed(i) == "time" \in DOMAIN ret.meal_logs[i] /\ hour_of(ret.meal_logs[i]).raised

\* the logged meals that are not skipped, and those of them at the hours given
KeptMeals == {i \in 1..Len(ret.meal_logs) : ~IsMalformed(i)}
KeptAtHours(hours) == {i \in KeptMeals : hour_of(ret.meal_logs[i]).hour \in hours}

\* C21: when some logged meal has a malformed time, get_meal_timing_insights
\* still returns a list of insights, the malformed meals are in no bucket, and
\* the fractions behind the four insights are taken over the other meals only.
C21_MalformedEntriesSkipped ==
  (Returned("get_meal_timing_insights")
   /\ \E i \in 1..Len(ret.meal_logs) : IsMalformed(i)) =>
    LET n == Cardinality(KeptMeals)
        late == Cardinality({i \in KeptMeals : starts_late(ret.meal_logs[i])})
    IN  /\ Len(ret.value) > 0
        /\ \A i \in 1..Len(ret.meal_logs) :
             IsMalformed(i) =>
               /\ ~list_in(i, ret.morning_meals)
               /\ ~list_in(i, ret.afternoon_meals)
               /\ ~list_in(i, ret.evening_meals)
        /\ n > 0 =>
             /\ list_in(SkipMorningInsight, ret.value)
                  <=> 5 * Cardinality(KeptAtHours(5..11)) < n
             /\ list_in(EveningInsight, ret.value)
                  <=> 2 * Cardinality(KeptAtHours((17..23) \cup (0..4))) > n
             /\ list_in(MiddayInsight, ret.value)
                  <=> 5 * Cardinality(KeptAtHours(12..16)) > 3 * n
             /\ list_in(LateInsight, ret.value) <=> 10 * late > 3 * n

\* two morning meals and one with the time "noon": all the meals that have an
\* hour are morning meals, and the call returned
C21_Witness ==
  /\ Returned("get_meal_timing_insights")
  /\ Len(ret.meal_logs) = 3
  /\ Cardinality({i \in 1..3 : IsMalformed(i)}) = 1
  /\ Cardinality(KeptAtHours(5..11)) = 2
  /\ Len(ret.morning_meals) = 2
  /\ Len(ret.value) > 0

(***************************************************************************)
(* Properties of the store (StoreSpec).                                    *)
(***************************************************************************)
StoreOps ==
  {"init_database", "save_user_profile", "get_user_profile", "log_meal", "log_water",
   "log_mood", "get_recent_meals", "get_daily_nutrition_totals", "get_progress_data",
   "get_water_logs", "get_mood_logs"}

\* C22: no storage operation lets an exception reach its caller, whatever
\* fails in the store underneath.
C22_StoreFailuresNeverPropagate ==
  (pc = "returned" /\ ret.op \in StoreOps) => ~ret.raised

\* init_database was called, sqlite3 raised before the last table was
\* created, and the exception reached the caller
C22_Witness ==
  /\ Returned("init_database")
  /\ ret.created < Len(TableOrder)
  /\ ret.raised

\* the step is a call of op that returned value
Called(op, value) == pc' = "returned" /\ ret'.op = op /\ ret'.value = value

\* a record of the query result equals the logged entry, field by field
SameMeal(row, meal_data) ==
  /\ row.meal_name = meal_data.meal_name
  /\ row.meal_type = meal_data.meal_type
  /\ row.date = meal_data.date
  /\ row.time = meal_data.time
  /\ py_eq(row.calories, meal_data.calories)
  /\ py_eq(row.protein, meal_data.protein)
  /\ py_eq(row.carbs, meal_data.carbs)
  /\ py_eq(row.fat, meal_data.fat)

\* the result of get_progress_data on db when nothing fails
MealsOfRange(db, range) ==
  range_query(db, "meal_logs", FALSE, get_progress_data(db, range[1], range[2]))

\* C23: right after a log_meal that returned True, get_progress_data over
\* any range that contains the entry's date returns a record with the logged
\* name, type, date and time and with calories, protein, carbs and fat equal
\* to the logged numbers.
C23_LoggedMealReadBack ==
  [][Called("log_meal", TRUE) =>
       \A range \in DateRangeInputs :
         str_between(ret'.meal_data.date, range[1], range[2]) =>
           \E i \in 1..Len(MealsOfRange(store', range)) :
             SameMeal(MealsOfRange(store', range)[i], ret'.meal_data)]_vars

\* a catalog meal was logged with int numbers and is read back with floats
C23_Witness ==
  /\ Returned("log_meal")
  /\ ret.value = TRUE
  /\ ret.meal_data.calories = PyInt(160)
  /\ \E i \in 1..Len(MealsOfRange(store, <<"2024-01-01", "2024-01-31">>)) :
       LET row == MealsOfRange(store, <<"2024-01-01", "2024-01-31">>)[i]
       IN  row.calories = PyFloat(R(160)) /\ SameMeal(row, ret.meal_data)

LogTables == {"meal_logs", "water_logs", "mood_logs"}

LogOpOf == [meal_logs |-> "log_meal", water_logs |-> "log_water", mood_logs |-> "log_mood"]

\* C24: in every step of the store, a log call that returned True has added
\* exactly one entry at the end of its own log, and every other log, and
\* every log in any other step (a failed log call, save_user_profile, a
\* query, init_database), is left exactly as it was.
C24_LogsAppendOnly ==
  [][\A t \in LogTables :
       IF Called(LogOpOf[t], TRUE)
       THEN /\ Len(store'[t]) = Len(store[t]) + 1
            /\ SubSeq(store'[t], 1, Len(store[t])) = store[t]
       ELSE store'[t] = store[t]]_vars

\* a second water entry was added while the meal and mood logs hold entries
C24_Witness ==
  /\ Returned("log_water")
  /\ ret.value = TRUE
  /\ Len(store.water_logs) = 2
  /\ Len(store.meal_logs) > 0
  /\ Len(store.mood_logs) > 0

\* C25: the store never holds more than one profile row; right after a
\* save_user_profile that returned True, get_user_profile returns exactly the
\* saved fields; a save that returned False, and every other operation,
\* leaves the stored profile as it was; with no row stored get_user_profile
\* returns None.
C25_SingleCurrentProfile ==
  [][/\ Len(store'.user_profile) <= 1
     /\ IF Called("save_user_profile", TRUE)
        THEN get_user_profile(store', FALSE) = {ret'.profile_data}
        ELSE store'.user_profile = store.user_profile
     /\ store'.user_profile = <<>> => get_user_profile(store', FALSE) = {None}]_vars

\* a profile with two dietary restrictions was saved and is the one row
C25_Witness ==
  /\ Returned("save_user_profile")
  /\ ret.value = TRUE
  /\ ret.profile_data.dietary_restrictions = <<"Vegan", "Gluten-free">>
  /\ Len(store.user_profile) = 1
  /\ get_user_profile(store, FALSE) = {ret.profile_data}

RatingInRange(v) == v.type = "int" /\ 1 <= v.n /\ v.n <= 10

\* C26: after every step each stored mood entry has a rating in 1..10, and a
\* log_mood with a rating outside 1..10 has returned False and left the mood
\* log as it was.
C26_MoodRatingsInRange ==
  [][/\ \A i \in 1..Len(store'.mood_logs) : RatingInRange(store'.mood_logs[i].rating)
     /\ (pc' = "returned" /\ ret'.op = "log_mood" /\ ~RatingInRange(ret'.rating)) =>
          /\ ret'.value = FALSE
          /\ store'.mood_logs = store.mood_logs]_vars

\* a rating of 11 was refused by an initialised store that nothing else
\* failed in, with a mood entry already stored
C26_Witness ==
  /\ Returned("log_mood")
  /\ ret.rating = PyInt(11)
  /\ ~ret.fault
  /\ "mood_logs" \in store.tables
  /\ ret.value = FALSE
  /\ Len(store.mood_logs) = 1

(***************************************************************************)
(* Properties of the pages (AppSpec).                                      *)
(***************************************************************************)
\* the Mifflin-St Jeor value of the design: 10 w + 6.25 h - 5 a, plus 5 for
\* a male and minus 161 otherwise
DesignBmr(weight, height, age, gender) ==
  QAdd(QSub(QAdd(QMul(R(10), weight), QMul(Q(625, 100), R(height))), R(5 * age)),
       IF lower(gender) = "male" THEN R(5) ELSE R(-161))

ProfileIsDerived(profile) ==
  /\ profile.bmr = DesignBmr(profile.weight, profile.height, profile.age, profile.gender)
  /\ profile.daily_calories = QMul(profile.bmr, DesignMultiplier(profile.activity_level))

\* C28: after any sequence of submissions of the profile form, the stored
\* profile row and the profile kept in the session have bmr equal to the BMR
\* of their weight, height, age and gender, and daily_calories equal to that
\* bmr times the multiplier of their activity level.
C28_StoredProfileIsDerived ==
  /\ \A i \in 1..Len(store.user_profile) : ProfileIsDerived(store.user_profile[i])
  /\ session_state.user_profile # None => ProfileIsDerived(session_state.user_profile)

\* the form was submitted for a very active woman over a stored profile of a
\* sedentary man, and the row was replaced
C28_Witness ==
  /\ Returned("show_user_profile")
  /\ ret.saved = TRUE
  /\ ret.form.gender = "Female"
  /\ Len(store.user_profile) = 1
  /\ store.user_profile[1].activity_level = "Very active (hard exercise 6-7 days/week)"
  /\ store.user_profile[1].bmr = R(1264)
  /\ store.user_profile[1].daily_calories = Q(21804, 10)

\* C29: when the recommendations page is opened in a session without a
\* profile, it shows its warning, makes no call to the recommender and lets
\* no exception out.
C29_NoProfileNoRecommenderCall ==
  (Returned("show_meal_recommendations") /\ ret.user_profile = None) =>
    /\ ret.warning
    /\ ~ret.called_recommender
    /\ ~ret.raised
    /\ ret.value = <<>>

\* the page was opened without a profile in a session that follows one in
\* which recommendations were made
C29_Witness ==
  /\ Returned("show_meal_recommendations")
  /\ ret.user_profile = None
  /\ session_state.user_profile = None
  /\ ret.warning
  /\ Len(store.user_profile) = 1

(***************************************************************************)
(* Properties of the lookup client, stated of the steps of ApiSpec.        *)
(***************************************************************************)
\* the two queries have the same trimmed, lower-cased text
SameText(q1, q2) == strip(lower(q1)) = strip(lower(q2))

\* in the cache c, a search for q answers r without a request, whatever the
\* server would have said
SearchHit(c, q, r) ==
  \A response \in SearchResponseInputs :
    /\ search_food(c, q, response).value = r
    /\ ~search_food(c, q, response).requested

BarcodeHit(c, b, r) ==
  \A response \in BarcodeResponseInputs :
    /\ get_product_by_barcode(c, b, response).value = r
    /\ ~get_product_by_barcode(c, b, response).requested

\* the records a lookup can answer
LookupRecords ==
  {extract_nutrition_data(OatsProduct), extract_nutrition_data(RiceProduct)}

\* what a search for q would answer and whether it would ask the server is
\* the same in the caches c1 and c2
SameSearch(c1, c2, q) ==
  \A response \in SearchResponseInputs :
    /\ search_food(c1, q, response).value = search_food(c2, q, response).value
    /\ search_food(c1, q, response).requested = search_food(c2, q, response).requested

SameBarcode(c1, c2, b) ==
  \A response \in BarcodeResponseInputs :
    /\ get_product_by_barcode(c1, b, response).value
         = get_product_by_barcode(c2, b, response).value
    /\ get_product_by_barcode(c1, b, response).requested
         = get_product_by_barcode(c2, b, response).requested

\* C27: lookups are memoized by query key until clear_cache.  Once
\* search_food(q) has returned a record r, a search for any query with the
\* same trimmed, lower-cased text answers r without a request, and likewise
\* get_product_by_barcode for the same barcode; an answer that needs no
\* request stays so over every step but clear_cache; and a search changes the
\* answer of no barcode lookup and of no search for another text, a barcode
\* lookup that of no search and of no other barcode: the keys never collide.
C27_LookupsMemoizedByKey ==
  [][/\ (pc' = "returned" /\ ret'.op = "search_food" /\ ret'.value # None) =>
          /\ \A q \in QueryInputs :
               SameText(q, ret'.query) => SearchHit(cache', q, ret'.value)
          /\ \A q \in QueryInputs :
               ~SameText(q, ret'.query) => SameSearch(cache, cache', q)
          /\ \A b \in BarcodeInputs : SameBarcode(cache, cache', b)
     /\ (pc' = "returned" /\ ret'.op = "get_product_by_barcode" /\ ret'.value # None) =>
          /\ BarcodeHit(cache', ret'.barcode, ret'.value)
          /\ \A b \in BarcodeInputs :
               b # ret'.barcode => SameBarcode(cache, cache', b)
          /\ \A q \in QueryInputs : SameSearch(cache, cache', q)
     /\ ~(pc' = "returned" /\ ret'.op = "clear_cache") =>
          \A r \in LookupRecords :
            /\ \A q \in QueryInputs : SearchHit(cache, q, r) => SearchHit(cache', q, r)
            /\ \A b \in BarcodeInputs : BarcodeHit(cache, b, r) => BarcodeHit(cache', b, r)
    ]_vars

\* "OATS" was answered from the cache with the record that a search in other
\* case and spacing had stored, while the text 737 is cached as a query and as
\* a barcode with different records
C27_Witness ==
  /\ pc = "returned"
  /\ ret.op = "search_food"
  /\ ret.query = "OATS"
  /\ ~ret.requested
  /\ ret.value = extract_nutrition_data(OatsProduct)
  /\ search_cache_key("737") \in DOMAIN cache
  /\ barcode_cache_key("737") \in DOMAIN cache
  /\ cache[search_cache_key("737")] # cache[barcode_cache_key("737")]

\* C30: a search_food or get_product_by_barcode call that returns None leaves
\* the cache unchanged, the cache never holds None, and when the call had
\* asked the server (its query or barcode was valid and not cached), the same
\* call made again asks the server again.
C30_NullResultsNotMemoized ==
  [][/\ (pc' = "returned" /\ ret'.op = "search_food" /\ ret'.value = None) =>
          /\ cache' = cache
          /\ ret'.requested =>
               \A response \in SearchResponseInputs :
                 search_food(cache', ret'.query, response).requested
     /\ (pc' = "returned" /\ ret'.op = "get_product_by_barcode" /\ ret'.value = None) =>
          /\ cache' = cache
          /\ ret'.requested =>
               \A response \in BarcodeResponseInputs :
                 get_product_by_barcode(cache', ret'.barcode, response).requested
     /\ \A k \in DOMAIN cache' : cache'[k] # None
    ]_vars

\* a search of a valid query found no product with nutrition data and
\* returned None while the cache held the records of other lookups
C30_Witness ==
  /\ pc = "returned"
  /\ ret.op = "search_food"
  /\ ret.query = "rice"
  /\ ret.requested
  /\ ret.response.error = "none"
  /\ ret.value = None
  /\ search_cache_key("oats") \in DOMAIN cache
  /\ barcode_cache_key("5001") \in DOMAIN cache
  /\ search_cache_key("rice") \notin DOMAIN cache

====
